---- MODULE Spec2Model ----
(***************************************************************************)
(* A model of baselib's vectors (vector.c, _vector.h) and slices (slice.c, *)
(* _slice.h): reference-counted growable arrays and the windows that share *)
(* them.                                                                   *)
(*                                                                         *)
(* A vector is identified by its address, modelled as an id in VectorIds   *)
(* that malloc gives out again once it is freed and no slice still holds  *)
(* it; a slice handle is a slot in SliceIds.  Items are modelled one value *)
(* per item (item size 4, for which the 32-bit copy of slice_swap_items    *)
(* moves exactly one item).  Memory returned by malloc or added by realloc *)
(* is uninitialized: such a cell holds Undef, which stands for whatever   *)
(* value a read of it yields and equals no value that was written.  An     *)
(* allocation may fail, at most MaxAllocFailures times in a run.  A call   *)
(* that reaches the vector of a slice whose vector has been freed is       *)
(* undefined behaviour: it sets ub, after which nothing is known about the *)
(* program and the model takes no further step.                            *)
(*                                                                         *)
(* On top of them: slice_swap_items on the bytes of the items (mem), the   *)
(* binary heap of heap.c, which keeps pointers in a slice (heap, returned, *)
(* log), the hash table of map.c (map, inserted), the doubly linked queue  *)
(* of queue.c (queue) and the fifo of fifo.c, which takes single nodes and *)
(* slices of nodes (fifo).  Each component has its own specification over  *)
(* the same variables.                                                     *)
(***************************************************************************)
EXTENDS Integers, Sequences, FiniteSets, TLC

VARIABLES slices, vectors, last, alloc_failures, ub, mem, heap, returned, log,
          map, inserted, queue, fifo, pc

\* ---- bounds of the model ------------------------------------------------
\* Slice handles and vector addresses the program may hold at once.
MaxSlices == 2
MaxVectors == 3
\* Where a slice may end (start + len) when slices share vectors (MaxEnd)
\* and when the program holds a single slice (MaxSoloEnd).
MaxEnd == 2
MaxSoloEnd == 3
MaxAllocFailures == 1
\* The byte-level model of slice_swap_items: item sizes 1..MaxItemSize and
\* 2 * 8, vectors of up to MaxSwapNumber items, MaxSwaps swaps in a run.
MaxItemSize == 9
MaxSwapNumber == 3
MaxSwaps == 2
\* Items a heap may hold, and items of the heaps built from data whose
\* extractions are followed to the end.
MaxHeapLen == 4
MaxSortLen == 5
\* How many times the table of a map may double from MIN_SIZE.
MaxDoublings == 2
\* Entries of the maps whose sizes are held at their full width.
MaxWideNb == 10

\* ---- constants of vector.c ----------------------------------------------
ARRAY_MINIMUM_ALLOCATION_NUMBER == 8
ARRAY_ALLOCATION_NUMBER_THRESHOLD == 4096

SliceIds == 1..MaxSlices
VectorIds == 1..MaxVectors
Values == {1, 2}
ItemSizes == {4}

\* The content of a cell that was allocated and never written.
Undef == 0


vars ==
    <<slices, vectors, last, alloc_failures, ub, mem, heap, returned, log,
      map, inserted, queue, fifo, pc>>

\* The variables no call of slice.c on the slices of the model touches: the
\* block of bytes of the byte-level model of slice_swap_items, the heap,
\* the item the last call on the heap returned and the log of the items it
\* was built from and gave back, the map and the entries inserted in it,
\* the queue and the fifo.
beside_slices == <<mem, heap, returned, log, map, inserted, queue, fifo, pc>>

\* The variables no call of heap.c touches.
beside_heap == <<log, map, inserted, queue, fifo, pc>>

\* The variables no call of map.c touches.
beside_map == <<slices, vectors, ub, mem, heap, log, queue, fifo, pc>>

\* The loop of heap.c that is running, for the model that takes the loops
\* one iteration at a time: the call that is running and the loop it is in
\* ("none" when there is none), the index from of percolate_up or
\* percolate_down and the index i of the loop of new_heap_from_slice.
NoPc == [op |-> "none", loop |-> "none", from |-> 0, i |-> 0]

\* struct slice (use is left out: private data no operation here reads).
NoSlice == [live |-> FALSE, vector |-> 0, start |-> 0, len |-> 0]

\* struct vector; state is "live" or "none" (no vector at this address).
NoVector ==
    [state |-> "none", ref_count |-> 0, item_size |-> 0, number |-> 0,
     data |-> <<>>]

\* The record of the last call: its name, its return value ("0", "-1",
\* "NULL" or "ptr") and what vector_grow did in it ("none" when it was not
\* called, "realloc", "fork" or "fail").
Call(op, ret, grow) == [op |-> op, ret |-> ret, grow |-> grow]

Uninit(number) == [i \in 1..number |-> Undef]

\* ---- vector.c -----------------------------------------------------------

RECURSIVE get_2_power_loop(_, _)
get_2_power_loop(number, allocation) ==
    IF number > allocation
    THEN IF number < ARRAY_ALLOCATION_NUMBER_THRESHOLD
         THEN get_2_power_loop(number, allocation * 2)
         ELSE get_2_power_loop(number,
                               allocation + ARRAY_ALLOCATION_NUMBER_THRESHOLD)
    ELSE allocation

\* get_2_power that doubles whatever the number asked for.
get_2_power_doubling(number) ==
    CHOOSE allocation \in {2 ^ k : k \in 3..20} :
       /\ allocation >= number
       /\ allocation = ARRAY_MINIMUM_ALLOCATION_NUMBER
             \/ allocation \div 2 < number

get_2_power(number) ==
    get_2_power_loop(number, ARRAY_MINIMUM_ALLOCATION_NUMBER)

\* new_vector with every allocation succeeding.
new_vector(item_size, number) ==
    [state |-> "live", ref_count |-> 1, item_size |-> item_size,
     number |-> number, data |-> Uninit(number)]

\* new_vector_from_data: new_vector, then memcpy of the given data.
new_vector_from_data(data, item_size, number) ==
    [new_vector(item_size, number) EXCEPT
        !.data = [i \in 1..number |-> data[i]]]

vector_share(vec) == [vec EXCEPT !.ref_count = @ + 1]

\* vector_free that frees the vector whoever still shares it.
vector_free_shared(vec) == IF vec.ref_count >= 1 THEN NoVector ELSE vec

vector_free(vec) ==
    IF vec.ref_count > 1 THEN [vec EXCEPT !.ref_count = @ - 1]
    ELSE IF vec.ref_count = 1 THEN NoVector
    ELSE vec

\* vector_grow that takes a new block and copies nothing into it.
vector_grow_fresh_block(vs, v, new, fail) ==
    LET number == get_2_power(vs[v].number + 1)
    IN  IF fail # "none"
        THEN [ret |-> 0, vectors |-> vs, grow |-> "fail"]
        ELSE [ret |-> v,
              vectors |-> [vs EXCEPT ![v].data = Uninit(number),
                                     ![v].number = number],
              grow |-> "realloc"]

\* vector_grow that resizes the block in place whoever shares it.
vector_grow_in_place(vs, v, new, fail) ==
    LET vec == vs[v]
        number == get_2_power(vec.number + 1)
    IN  IF fail # "none"
        THEN [ret |-> 0, vectors |-> vs, grow |-> "fail"]
        ELSE [ret |-> v,
              vectors |-> [vs EXCEPT ![v] =
                  [vec EXCEPT
                     !.data = [i \in 1..number |->
                                 IF i <= vec.number THEN vec.data[i] ELSE Undef],
                     !.number = number]],
              grow |-> "realloc"]

\* vector_grow that makes the new vector and leaves the count of the old one.
vector_grow_keeps_count(vs, v, new, fail) ==
    LET vec == vs[v]
        number == get_2_power(vec.number + 1)
        grown == [vec EXCEPT
                     !.data = [i \in 1..number |->
                                 IF i <= vec.number THEN vec.data[i] ELSE Undef],
                     !.number = number]
    IN  IF fail # "none"
        THEN [ret |-> 0, vectors |-> vs, grow |-> "fail"]
        ELSE IF vec.ref_count = 1
             THEN [ret |-> v, vectors |-> [vs EXCEPT ![v] = grown],
                   grow |-> "realloc"]
             ELSE [ret |-> new,
                   vectors |-> [vs EXCEPT
                                  ![new] = [grown EXCEPT !.ref_count = 1]],
                   grow |-> "fork"]

\* vector_grow on vector v of vs; new is the address malloc returns for a
\* struct vector and fail names the allocation that fails: "none", "data"
\* (realloc, or malloc of the new block) or "vector" (malloc of the new
\* struct vector, shared case only).  The result is the vector returned (0
\* is NULL), the vectors afterwards and which branch ran.
vector_grow(vs, v, new, fail) ==
    LET vec == vs[v]
        number == get_2_power(vec.number + 1)
    IN  IF vec.ref_count = 1
        THEN IF fail = "data"
             THEN [ret |-> 0, vectors |-> vs, grow |-> "fail"]
             ELSE [ret |-> v,
                   vectors |-> [vs EXCEPT ![v] =
                       [vec EXCEPT
                          !.data = [i \in 1..number |->
                                      IF i <= vec.number THEN vec.data[i]
                                      ELSE Undef],
                          !.number = number]],
                   grow |-> "realloc"]
        ELSE IF fail = "data"
             THEN [ret |-> 0, vectors |-> vs, grow |-> "fail"]
             ELSE IF fail = "vector"
                  THEN [ret |-> 0,
                        vectors |-> [vs EXCEPT ![v].ref_count = @ - 1],
                        grow |-> "fail"]
                  ELSE [ret |-> new,
                        vectors |-> [vs EXCEPT
                            ![v].ref_count = @ - 1,
                            ![new] = [state |-> "live", ref_count |-> 1,
                                      item_size |-> vec.item_size,
                                      number |-> number,
                                      data |-> Uninit(number)]],
                        grow |-> "fork"]

\* ---- _slice.h -----------------------------------------------------------

_slice_cap(vs, sl) == vs[sl.vector].number - sl.start

_slice_len(sl) == sl.len

\* _slice_make_room that grows once len is beyond the capacity.
_slice_make_room_late(vs, sl, new, fail) ==
    IF sl.len > _slice_cap(vs, sl)
    THEN LET g == vector_grow(vs, sl.vector, new, fail)
         IN  IF g.ret = 0
             THEN [ok |-> FALSE, slice |-> sl, vectors |-> g.vectors,
                   grow |-> g.grow]
             ELSE [ok |-> TRUE, slice |-> [sl EXCEPT !.vector = g.ret],
                   vectors |-> g.vectors, grow |-> g.grow]
    ELSE [ok |-> TRUE, slice |-> sl, vectors |-> vs, grow |-> "none"]

\* _slice_make_room that grows the vector at every call.
_slice_make_room_always(vs, sl, new, fail) ==
    LET g == vector_grow(vs, sl.vector, new, fail)
    IN  IF g.ret = 0
        THEN [ok |-> FALSE, slice |-> sl, vectors |-> g.vectors,
              grow |-> g.grow]
        ELSE [ok |-> TRUE, slice |-> [sl EXCEPT !.vector = g.ret],
              vectors |-> g.vectors, grow |-> g.grow]

\* _slice_make_room: the slice and the vectors afterwards.
_slice_make_room(vs, sl, new, fail) ==
    IF sl.len >= _slice_cap(vs, sl)
    THEN LET g == vector_grow(vs, sl.vector, new, fail)
         IN  IF g.ret = 0
             THEN [ok |-> FALSE, slice |-> sl, vectors |-> g.vectors,
                   grow |-> g.grow]
             ELSE [ok |-> TRUE, slice |-> [sl EXCEPT !.vector = g.ret],
                   vectors |-> g.vectors, grow |-> g.grow]
    ELSE [ok |-> TRUE, slice |-> sl, vectors |-> vs, grow |-> "none"]

_vector_write_item_at(vec, index, data) ==
    [vec EXCEPT !.data[index + 1] = data]

\* _slice_append_item that writes at len from the start of the vector.
_slice_append_item_unshifted(vs, sl, data, new, fail) ==
    LET m == _slice_make_room(vs, sl, new, fail)
    IN  IF ~m.ok
        THEN [ret |-> "-1", slice |-> m.slice, vectors |-> m.vectors,
              grow |-> m.grow]
        ELSE [ret |-> "0",
              slice |-> [m.slice EXCEPT !.len = @ + 1],
              vectors |-> [m.vectors EXCEPT ![m.slice.vector] =
                  _vector_write_item_at(@, m.slice.len, data)],
              grow |-> m.grow]

\* _slice_append_item.
_slice_append_item(vs, sl, data, new, fail) ==
    LET m == _slice_make_room(vs, sl, new, fail)
    IN  IF ~m.ok
        THEN [ret |-> "-1", slice |-> m.slice, vectors |-> m.vectors,
              grow |-> m.grow]
        ELSE LET index == m.slice.len
                 w == m.slice.vector
             IN  [ret |-> "0",
                  slice |-> [m.slice EXCEPT !.len = @ + 1],
                  vectors |-> [m.vectors EXCEPT ![w] =
                      _vector_write_item_at(@, m.slice.start + index, data)],
                  grow |-> m.grow]

\* _slice_write_item_at that takes the index from the start of the vector.
_slice_write_item_at_unshifted(vs, sl, index, data) ==
    [vs EXCEPT ![sl.vector] = _vector_write_item_at(@, index, data)]

_slice_write_item_at(vs, sl, index, data) ==
    [vs EXCEPT ![sl.vector] = _vector_write_item_at(@, sl.start + index, data)]

_slice_item_at(vs, sl, index) == vs[sl.vector].data[sl.start + index + 1]

\* vector_move_items( vector, first, end, offset ): the items first..end
\* move to first+offset..end+offset; -1 when either range is not within
\* the vector.
vector_move_items(vec, first, end, offset) ==
    IF \/ first > end
       \/ end >= vec.number
       \/ first + offset < 0
       \/ end + offset >= vec.number
    THEN [ret |-> -1, vector |-> vec]
    ELSE [ret |-> 0,
          vector |-> [vec EXCEPT !.data =
              [i \in 1..vec.number |->
                  IF first + offset + 1 <= i /\ i <= end + offset + 1
                  THEN vec.data[i - offset]
                  ELSE vec.data[i]]]]

\* ---- the environment ----------------------------------------------------

\* The least of a set of slots or addresses, 0 when it is empty.
Least(ids) == IF ids = {} THEN 0 ELSE CHOOSE i \in ids : \A j \in ids : i <= j

\* The slot of the slice handle the next malloc of a struct slice returns
\* (0 when the model has none).
FreshSlice == Least({s \in SliceIds : ~slices[s].live})

\* The address malloc returns for a new struct vector: one that holds no
\* vector and that no slice still points to (0 when the model has none).
FreeAddress(v) ==
    vectors[v].state = "none" /\ \A s \in SliceIds : slices[s].vector # v

FreshVector == Least({v \in VectorIds : FreeAddress(v)})

\* An allocation may fail while the budget of failures lasts.
MayFail(fail) == fail = "none" \/ alloc_failures < MaxAllocFailures

Failures(fail) == IF fail = "none" THEN alloc_failures ELSE alloc_failures + 1

\* A slice the caller may use: a live handle (its vector may be freed).
Usable(s) == ~ub /\ slices[s].live

Valid(s) == Usable(s) /\ vectors[slices[s].vector].state = "live"

\* A call on slice s that the program can make and the model follows: one
\* that returns before it reaches the vector, or one whose vector is
\* allocated.
Reaches(s, reached) == Usable(s) /\ (reached => Valid(s))

\* Which allocations a growth of slice s goes through.
GrowFailures(s) ==
    LET sl == slices[s]
        vec == vectors[sl.vector]
    IN  IF sl.len < _slice_cap(vectors, sl) THEN {"none"}
        ELSE IF vec.ref_count = 1 THEN {"none", "data"}
        ELSE {"none", "data", "vector"}

\* ---- slice.c ------------------------------------------------------------

\* new_slice_with_vector( vector, len ) on the vector new_vector or
\* new_vector_from_data made, as one call op; fail names the allocation that
\* fails: the block of data, the struct vector or the struct slice, after
\* which the vector stays allocated with no slice.
_new_slice(op, vec, len, fail) ==
    LET s == FreshSlice
        v == FreshVector
    IN  /\ ~ub /\ s # 0 /\ v # 0
        /\ MayFail(fail)
        /\ fail = "data" => vec.number > 0
        /\ alloc_failures' = Failures(fail)
        /\ \/ /\ fail \in {"data", "vector"}
              /\ UNCHANGED <<slices, vectors>>
              /\ last' = Call(op, "NULL", "none")
           \/ /\ fail = "slice"
              /\ vectors' = [vectors EXCEPT ![v] = vec]
              /\ UNCHANGED slices
              /\ last' = Call(op, "NULL", "none")
           \/ /\ fail = "none"
              /\ vectors' = [vectors EXCEPT ![v] = vec]
              /\ slices' = [slices EXCEPT ![s] =
                    [live |-> TRUE, vector |-> v, start |-> 0, len |-> len]]
              /\ last' = Call(op, "ptr", "none")
        /\ UNCHANGED ub
    /\ UNCHANGED beside_slices

\* new_slice( item_size, number ).
new_slice(item_size, number, fail) ==
    _new_slice("new_slice", new_vector(item_size, number), 0, fail)

\* new_slice_from_data( data, item_size, number ), data not NULL and number
\* its length.
new_slice_from_data(data, item_size, fail) ==
    _new_slice("new_slice_from_data",
               new_vector_from_data(data, item_size, Len(data)), Len(data),
               fail)

\* new_slice_from_slice that takes start from the start of the vector.
_new_slice_from_slice_at_start(sls, vs, s, new, start, beyond, fail) ==
    LET sl == sls[s]
    IN
    IF start > beyond \/ beyond > _slice_len(sl) \/ fail = "slice"
    THEN [ret |-> "NULL", slices |-> sls, vectors |-> vs]
    ELSE [ret |-> "ptr",
          slices |-> [sls EXCEPT ![new] =
              [live |-> TRUE, vector |-> sl.vector,
               start |-> start, len |-> beyond - start]],
          vectors |-> [vs EXCEPT ![sl.vector] = vector_share(@)]]

\* new_slice_from_slice( slice, start, beyond ) on slice s of sls: the
\* slices and vectors afterwards, new being the handle malloc returns.
_new_slice_from_slice(sls, vs, s, new, start, beyond, fail) ==
    LET sl == sls[s]
    IN
    IF start > beyond \/ beyond > _slice_len(sl) \/ fail = "slice"
    THEN [ret |-> "NULL", slices |-> sls, vectors |-> vs]
    ELSE [ret |-> "ptr",
          slices |-> [sls EXCEPT ![new] =
              [live |-> TRUE, vector |-> sl.vector,
               start |-> sl.start + start, len |-> beyond - start]],
          vectors |-> [vs EXCEPT ![sl.vector] = vector_share(@)]]

new_slice_from_slice(s, start, beyond, fail) ==
    /\ Reaches(s, start <= beyond /\ beyond <= slices[s].len
                     /\ fail = "none")
    /\ MayFail(fail)
    /\ fail = "slice" => start <= beyond /\ beyond <= slices[s].len
    /\ FreshSlice # 0
    /\ LET r == _new_slice_from_slice(slices, vectors, s, FreshSlice, start,
                                      beyond, fail)
       IN  /\ slices' = r.slices
           /\ vectors' = r.vectors
           /\ last' = Call("new_slice_from_slice", r.ret, "none")
    /\ alloc_failures' = Failures(fail)
    /\ UNCHANGED ub
    /\ UNCHANGED beside_slices

\* slice_dup( slice ).
slice_dup(s, fail) ==
    /\ Reaches(s, fail = "none") /\ FreshSlice # 0
    /\ MayFail(fail)
    /\ LET r == _new_slice_from_slice(slices, vectors, s, FreshSlice, 0,
                                      slices[s].len, fail)
       IN  /\ slices' = r.slices
           /\ vectors' = r.vectors
           /\ last' = Call("slice_dup", r.ret, "none")
    /\ alloc_failures' = Failures(fail)
    /\ UNCHANGED ub
    /\ UNCHANGED beside_slices

\* slice_update_len that takes any len.
slice_update_len_unchecked(s, len) ==
    /\ Valid(s)
    /\ slices' = [slices EXCEPT ![s].len = len]
    /\ last' = Call("slice_update_len", "0", "none")
    /\ UNCHANGED <<vectors, alloc_failures, ub>>
    /\ UNCHANGED beside_slices

\* slice_update_len( slice, len ).
slice_update_len(s, len) ==
    /\ Valid(s)
    /\ IF len > _slice_cap(vectors, slices[s])
       THEN /\ UNCHANGED slices
            /\ last' = Call("slice_update_len", "-1", "none")
       ELSE /\ slices' = [slices EXCEPT ![s].len = len]
            /\ last' = Call("slice_update_len", "0", "none")
    /\ UNCHANGED <<vectors, alloc_failures, ub>>
    /\ UNCHANGED beside_slices

\* slice_item_at( slice, index ).
slice_item_at(s, index) ==
    /\ Reaches(s, index < slices[s].len)
    /\ IF index >= slices[s].len
       THEN last' = Call("slice_item_at", "NULL", "none")
       ELSE last' = Call("slice_item_at", "ptr", "none")
    /\ UNCHANGED <<slices, vectors, alloc_failures, ub>>
    /\ UNCHANGED beside_slices

\* slice_write_item_at( slice, index, data ), data not NULL.
slice_write_item_at(s, index, data) ==
    /\ Reaches(s, index < slices[s].len)
    /\ IF index >= slices[s].len
       THEN /\ UNCHANGED vectors
            /\ last' = Call("slice_write_item_at", "-1", "none")
       ELSE /\ vectors' = _slice_write_item_at(vectors, slices[s], index, data)
            /\ last' = Call("slice_write_item_at", "0", "none")
    /\ UNCHANGED <<slices, alloc_failures, ub>>
    /\ UNCHANGED beside_slices

\* _slice_insert_hole.
_slice_insert_hole(vs, sl, index, new, fail) ==
    IF index > sl.len
    THEN [ret |-> -1, slice |-> sl, vectors |-> vs, grow |-> "none"]
    ELSE LET m == _slice_make_room(vs, sl, new, fail)
         IN  IF ~m.ok
             THEN [ret |-> -1, slice |-> m.slice, vectors |-> m.vectors,
                   grow |-> m.grow]
             ELSE LET w == m.slice.vector
                      mv == vector_move_items(m.vectors[w],
                                m.slice.start + index,
                                m.slice.start + m.slice.len - 1, 1)
                  IN  IF index < m.slice.len
                      THEN IF mv.ret = -1
                           THEN [ret |-> -1, slice |-> m.slice,
                                 vectors |-> m.vectors, grow |-> m.grow]
                           ELSE [ret |-> 0,
                                 slice |-> [m.slice EXCEPT !.len = @ + 1],
                                 vectors |-> [m.vectors EXCEPT ![w] = mv.vector],
                                 grow |-> m.grow]
                      ELSE [ret |-> 0,
                            slice |-> [m.slice EXCEPT !.len = @ + 1],
                            vectors |-> m.vectors, grow |-> m.grow]

\* slice_insert_item_at( slice, index, data ), data not NULL.
slice_insert_item_at(s, index, data, fail) ==
    /\ Reaches(s, index <= slices[s].len)
    /\ fail \in (IF index > slices[s].len THEN {"none"} ELSE GrowFailures(s))
    /\ MayFail(fail)
    /\ FreshVector # 0
    /\ LET h == _slice_insert_hole(vectors, slices[s], index, FreshVector, fail)
       IN  IF h.ret = -1
           THEN /\ slices' = [slices EXCEPT ![s] = h.slice]
                /\ vectors' = h.vectors
                /\ last' = Call("slice_insert_item_at", "-1", h.grow)
           ELSE /\ slices' = [slices EXCEPT ![s] = h.slice]
                /\ vectors' = _slice_write_item_at(h.vectors, h.slice, index,
                                                   data)
                /\ last' = Call("slice_insert_item_at", "0", h.grow)
    /\ alloc_failures' = Failures(fail)
    /\ UNCHANGED ub
    /\ UNCHANGED beside_slices

\* slice_remove_item_at( slice, index ).
slice_remove_item_at(s, index) ==
    /\ Reaches(s, index < slices[s].len)
    /\ LET sl == slices[s]
           mv == vector_move_items(vectors[sl.vector], sl.start + index + 1,
                                   sl.start + sl.len, -1)
       IN  IF index >= sl.len \/ mv.ret = -1
           THEN /\ UNCHANGED <<slices, vectors>>
                /\ last' = Call("slice_remove_item_at", "-1", "none")
           ELSE /\ vectors' = [vectors EXCEPT ![sl.vector] = mv.vector]
                /\ slices' = [slices EXCEPT ![s].len = @ - 1]
                /\ last' = Call("slice_remove_item_at", "0", "none")
    /\ UNCHANGED <<alloc_failures, ub>>
    /\ UNCHANGED beside_slices

\* slice_swap_items( slice, index1, index2 ); for an item size of 4 its one
\* 32-bit copy exchanges exactly the two items.
slice_swap_items(s, index1, index2) ==
    /\ Reaches(s, index1 # index2 /\ index1 < slices[s].len
                     /\ index2 < slices[s].len)
    /\ LET sl == slices[s]
           d == vectors[sl.vector].data
           p1 == sl.start + index1 + 1
           p2 == sl.start + index2 + 1
       IN  IF index1 = index2 \/ index1 >= sl.len \/ index2 >= sl.len
           THEN /\ UNCHANGED vectors
                /\ last' = Call("slice_swap_items", "-1", "none")
           ELSE /\ vectors' = [vectors EXCEPT ![sl.vector].data =
                       [d EXCEPT ![p1] = d[p2], ![p2] = d[p1]]]
                /\ last' = Call("slice_swap_items", "0", "none")
    /\ UNCHANGED <<slices, alloc_failures, ub>>
    /\ UNCHANGED beside_slices

\* slice_append_item( slice, data ), data not NULL.
slice_append_item(s, data, fail) ==
    /\ Valid(s)
    /\ fail \in GrowFailures(s) /\ MayFail(fail)
    /\ FreshVector # 0
    /\ LET r == _slice_append_item(vectors, slices[s], data, FreshVector, fail)
       IN  /\ slices' = [slices EXCEPT ![s] = r.slice]
           /\ vectors' = r.vectors
           /\ last' = Call("slice_append_item", r.ret, r.grow)
    /\ alloc_failures' = Failures(fail)
    /\ UNCHANGED ub
    /\ UNCHANGED beside_slices

\* slice_free( slice ): vector_free, then free of the handle.
slice_free(s) ==
    /\ Valid(s)
    /\ vectors' = [vectors EXCEPT ![slices[s].vector] = vector_free(@)]
    /\ slices' = [slices EXCEPT ![s] = NoSlice]
    /\ last' = Call("slice_free", "0", "none")
    /\ UNCHANGED <<alloc_failures, ub>>
    /\ UNCHANGED beside_slices

\* A call that reaches the vector of a slice whose vector was freed reads
\* freed memory.
use_after_free(s) ==
    /\ Usable(s) /\ vectors[slices[s].vector].state = "none"
    /\ ub' = TRUE
    /\ last' = Call("use_after_free", "0", "none")
    /\ UNCHANGED <<slices, vectors, alloc_failures>>
    /\ UNCHANGED beside_slices

\* ---- slice.c: slice_swap_items on the bytes of the items -----------------

\* A slice, its vector and the block of the vector byte by byte: number
\* items of item_size bytes, bytes[p] the byte at offset p - 1 of the block;
\* swaps counts the calls made.
NoMem ==
    [item_size |-> 0, number |-> 0, start |-> 0, len |-> 0, bytes |-> <<>>,
     swaps |-> 0]

\* tmp = *item1; *item1 = *item2; *item2 = tmp on two words of width bytes
\* at offset1 and offset2 of the block.
_swap_word(bytes, offset1, offset2, width) ==
    LET tmp == [k \in 1..width |-> bytes[offset1 + k]]
        item1 == [p \in DOMAIN bytes |->
                    IF offset1 < p /\ p <= offset1 + width
                    THEN bytes[offset2 + (p - offset1)]
                    ELSE bytes[p]]
    IN  [p \in DOMAIN bytes |->
           IF offset2 < p /\ p <= offset2 + width
           THEN tmp[p - offset2]
           ELSE item1[p]]

_swap_uint8(bytes, offset1, offset2) == _swap_word(bytes, offset1, offset2, 1)

_swap_uint16(bytes, offset1, offset2) == _swap_word(bytes, offset1, offset2, 2)

_swap_uint32(bytes, offset1, offset2) == _swap_word(bytes, offset1, offset2, 4)

RECURSIVE _swap_uint64(_, _, _, _)
_swap_uint64(bytes, offset1, offset2, n) ==
    IF n = 0 THEN bytes
    ELSE _swap_uint64(_swap_word(bytes, offset1 + 8 * (n - 1),
                                 offset2 + 8 * (n - 1), 8),
                      offset1, offset2, n - 1)

\* Both words lie within the block.
InBlock(bytes, offset1, offset2, width) ==
    offset1 + width <= Len(bytes) /\ offset2 + width <= Len(bytes)

\* One statement after another: F applied to the value of e, which is
\* evaluated once.
Then(e, F(_)) == CHOOSE r \in {F(x) : x \in {e}} : TRUE

\* The body of slice_swap_items once its arguments are accepted, one step
\* for each of its four if statements; a step takes and gives the bytes of
\* the block, the two offsets, the item_size left to swap, and whether a
\* word read or written lay beyond the block.  The result is the bytes of
\* the block afterwards (as they were when outside is TRUE) and outside.
_slice_swap_items(m, index1, index2) ==
    LET start == [bytes |-> m.bytes,
                  offset1 |-> (m.start + index1) * m.item_size,
                  offset2 |-> (m.start + index2) * m.item_size,
                  item_size |-> m.item_size, outside |-> FALSE]
        Swap64(st) ==
            IF st.item_size >= 8
            THEN IF InBlock(st.bytes, st.offset1, st.offset2,
                            8 * (st.item_size \div 8))
                 THEN [bytes |-> _swap_uint64(st.bytes, st.offset1,
                                              st.offset2, st.item_size \div 8),
                       offset1 |-> st.offset1 + st.item_size
                                      - (st.item_size % 8),
                       offset2 |-> st.offset2 + st.item_size
                                      - (st.item_size % 8),
                       item_size |-> st.item_size % 8,
                       outside |-> FALSE]
                 ELSE [st EXCEPT !.outside = TRUE]
            ELSE st
        Swap32(st) ==
            IF ~st.outside /\ st.item_size >= 4
            THEN IF InBlock(st.bytes, st.offset1, st.offset2, 4)
                 THEN [bytes |-> _swap_uint32(st.bytes, st.offset1, st.offset2),
                       offset1 |-> st.offset1 + 4,
                       offset2 |-> st.offset2 + 4,
                       item_size |-> st.item_size - 4,
                       outside |-> FALSE]
                 ELSE [st EXCEPT !.outside = TRUE]
            ELSE st
        \* "at most 1 16-bit swap": the call is to _swap_uint32.
        Swap16(st) ==
            IF ~st.outside /\ st.item_size >= 2
            THEN IF InBlock(st.bytes, st.offset1, st.offset2, 4)
                 THEN [bytes |-> _swap_uint32(st.bytes, st.offset1, st.offset2),
                       offset1 |-> st.offset1 + 2,
                       offset2 |-> st.offset2 + 2,
                       item_size |-> st.item_size - 2,
                       outside |-> FALSE]
                 ELSE [st EXCEPT !.outside = TRUE]
            ELSE st
        Swap8(st) ==
            IF ~st.outside /\ st.item_size > 0
            THEN IF InBlock(st.bytes, st.offset1, st.offset2, 1)
                 THEN [st EXCEPT
                         !.bytes = _swap_uint8(st.bytes, st.offset1,
                                               st.offset2)]
                 ELSE [st EXCEPT !.outside = TRUE]
            ELSE st
        Return(st) ==
            [bytes |-> IF st.outside THEN m.bytes
                       ELSE [p \in DOMAIN m.bytes |-> st.bytes[p]],
             outside |-> st.outside]
    IN  Then(Then(Then(Then(Then(start, Swap64), Swap32), Swap16), Swap8),
             Return)

\* slice_swap_items( slice, index1, index2 ) on the slice of mem.  A word
\* read or written beyond the block of the vector is undefined behaviour.
slice_swap_bytes(index1, index2) ==
    /\ ~ub /\ mem.item_size > 0 /\ mem.swaps < MaxSwaps
    /\ IF index1 = index2 \/ index1 >= mem.len \/ index2 >= mem.len
       THEN /\ mem' = [mem EXCEPT !.swaps = @ + 1]
            /\ last' = Call("slice_swap_items", "-1", "none")
            /\ UNCHANGED ub
       ELSE /\ \E r \in {_slice_swap_items(mem, index1, index2)} :
                  /\ mem' = [mem EXCEPT !.bytes = r.bytes, !.swaps = @ + 1]
                  /\ ub' = r.outside
            /\ last' = Call("slice_swap_items", "0", "none")
    /\ UNCHANGED <<slices, vectors, alloc_failures, heap, returned, log,
                   map, inserted, queue, fifo, pc>>

\* ---- heap.c -------------------------------------------------------------

\* struct heap: the slice that stores the items (cmp is the comparator
\* below in every heap of the model).
NoHeap == [live |-> FALSE, slice |-> 0]

\* The data a heap was built from and the items extracted from it since.
NoLog == [data |-> <<>>, out |-> <<>>]

\* The items are pointers to integers, modelled by the integer pointed to;
\* cmp returns val( item1 ) - val( item2 ): a max-heap.
HeapValues == {1, 3, 5, 7, 9}

cmp(item1, item2) == item1 - item2

_pointer_slice_item_at(vs, sl, index) == _slice_item_at(vs, sl, index)

_pointer_slice_write_item_at(vs, sl, index, data) ==
    _slice_write_item_at(vs, sl, index, data)

\* slice_swap_items on a slice of pointers, whose item of 8 bytes one 64-bit
\* copy exchanges: the vectors afterwards.
slice_swap_pointers(vs, sl, index1, index2) ==
    IF index1 = index2 \/ index1 >= sl.len \/ index2 >= sl.len THEN vs
    ELSE LET d == vs[sl.vector].data
             p1 == sl.start + index1 + 1
             p2 == sl.start + index2 + 1
         IN  [vs EXCEPT ![sl.vector].data =
                 [d EXCEPT ![p1] = d[p2], ![p2] = d[p1]]]

\* A comparison of two items one of which was never written hands cmp a
\* pointer that is none.
Unwritten(vs, sl, index1, index2) ==
    \/ _pointer_slice_item_at(vs, sl, index1) = Undef
    \/ _pointer_slice_item_at(vs, sl, index2) = Undef

\* The loops below take and give the vectors and whether cmp was handed an
\* item never written (bad), after which the call is undefined.
Mem(vs) == [vectors |-> vs, bad |-> FALSE]

RECURSIVE percolate_up_loop(_, _, _)
percolate_up_loop(hs, sl, from) ==
    IF from = 0 \/ hs.bad THEN hs
    ELSE LET vs == hs.vectors
             even == from % 2 = 0
             parent == IF even THEN from \div 2 - 1 ELSE (from - 1) \div 2
             bigger_child ==
                 IF even /\ cmp(_pointer_slice_item_at(vs, sl, from),
                                _pointer_slice_item_at(vs, sl, from - 1)) <= 0
                 THEN from - 1
                 ELSE from
         IN  IF \/ even /\ Unwritten(vs, sl, from, from - 1)
                \/ Unwritten(vs, sl, parent, bigger_child)
             THEN [hs EXCEPT !.bad = TRUE]
             ELSE IF cmp(_pointer_slice_item_at(vs, sl, parent),
                         _pointer_slice_item_at(vs, sl, bigger_child)) >= 0
                  THEN hs
                  ELSE Then(Mem(slice_swap_pointers(vs, sl, parent,
                                                    bigger_child)),
                            LAMBDA next : percolate_up_loop(next, sl, parent))

percolate_up(hs, sl, from) ==
    IF from >= _slice_len(sl) \/ from < 1 THEN hs
    ELSE percolate_up_loop(hs, sl, from)

RECURSIVE percolate_down_loop(_, _, _)
percolate_down_loop(hs, sl, from) ==
    LET vs == hs.vectors
        n == _slice_len(sl)
        left == 2 * from + 1
        right == left + 1
        bigger ==
            IF right >= n THEN left
            ELSE IF cmp(_pointer_slice_item_at(vs, sl, left),
                        _pointer_slice_item_at(vs, sl, right)) < 0
                 THEN right
                 ELSE left
    IN  IF hs.bad \/ left >= n THEN hs
        ELSE IF \/ right < n /\ Unwritten(vs, sl, left, right)
                \/ Unwritten(vs, sl, from, bigger)
             THEN [hs EXCEPT !.bad = TRUE]
             ELSE IF cmp(_pointer_slice_item_at(vs, sl, from),
                         _pointer_slice_item_at(vs, sl, bigger)) >= 0
                  THEN hs
                  ELSE Then(Mem(slice_swap_pointers(vs, sl, from, bigger)),
                            LAMBDA next : percolate_down_loop(next, sl, bigger))

percolate_down(hs, sl, from) ==
    IF from >= _slice_len(sl) \div 2 THEN hs
    ELSE percolate_down_loop(hs, sl, from)

\* The item written and percolated down whatever the direction asked for.
updade_item_always_down(vs, sl, item, data, inc) ==
    Then(Mem(_pointer_slice_write_item_at(vs, sl, item, data)),
         LAMBDA hs : percolate_down(hs, sl, item))

\* updade_item.
updade_item(vs, sl, item, data, inc) ==
    Then(Mem(_pointer_slice_write_item_at(vs, sl, item, data)),
         LAMBDA hs : IF inc THEN percolate_up(hs, sl, item)
                     ELSE percolate_down(hs, sl, item))

\* The do ... while ( i-- ) of new_heap_from_slice.
RECURSIVE heapify(_, _, _)
heapify(hs, sl, i) ==
    Then(percolate_down(hs, sl, i),
         LAMBDA next : IF i = 0 THEN next ELSE heapify(next, sl, i - 1))

\* The items left in the order of the array.
_new_heap_from_slice_in_place(vs, sl) == Mem(vs)

\* What new_heap_from_slice does to the vectors.
_new_heap_from_slice(vs, sl) ==
    IF _slice_len(sl) > 1
    THEN heapify(Mem(vs), sl, (_slice_len(sl) - 1) \div 2)
    ELSE Mem(vs)

\* The heap of the model and its slice; a call on it that reaches a vector
\* freed under the slice is use_after_free.
HeapSlice == slices[heap.slice]

HasHeap == ~ub /\ heap.live /\ Valid(heap.slice)

\* new_heap_from_slice( slice, cmp ) on slice s; fail names the allocation
\* that fails: "none" or "heap" (the struct heap).
new_heap_from_slice(s, fail) ==
    /\ ~heap.live /\ Valid(s)
    /\ MayFail(fail)
    /\ IF fail = "heap"
       THEN /\ UNCHANGED <<vectors, heap, ub>>
            /\ last' = Call("new_heap_from_slice", "NULL", "none")
       ELSE /\ \E hs \in {_new_heap_from_slice(vectors, slices[s])} :
                  /\ vectors' = hs.vectors
                  /\ ub' = hs.bad
            /\ heap' = [live |-> TRUE, slice |-> s]
            /\ last' = Call("new_heap_from_slice", "ptr", "none")
    /\ returned' = 0
    /\ alloc_failures' = Failures(fail)
    /\ UNCHANGED <<slices, mem>>

\* new_heap and new_heap_from_data on the vector new_slice or
\* new_slice_from_data made: fail names the allocation that fails, the
\* block of data, the struct vector, the struct slice (the vector then stays
\* allocated, see _new_slice) or the struct heap (the slice is then freed).
_new_heap(op, vec, len, fail) ==
    LET s == FreshSlice
        v == FreshVector
        sl == [live |-> TRUE, vector |-> v, start |-> 0, len |-> len]
    IN  /\ ~ub /\ ~heap.live /\ s # 0 /\ v # 0
        /\ MayFail(fail)
        /\ fail = "data" => vec.number > 0
        /\ IF fail = "none"
           THEN /\ \E hs \in {_new_heap_from_slice(
                                 [vectors EXCEPT ![v] = vec], sl)} :
                      /\ vectors' = hs.vectors
                      /\ ub' = hs.bad
                /\ slices' = [slices EXCEPT ![s] = sl]
                /\ heap' = [live |-> TRUE, slice |-> s]
                /\ last' = Call(op, "ptr", "none")
           ELSE /\ vectors' = IF fail = "slice"
                              THEN [vectors EXCEPT ![v] = vec]
                              ELSE vectors
                /\ UNCHANGED <<slices, heap, ub>>
                /\ last' = Call(op, "NULL", "none")
        /\ returned' = 0
        /\ alloc_failures' = Failures(fail)
        /\ UNCHANGED mem

\* new_heap( number, cmp ).
new_heap(number, fail) ==
    _new_heap("new_heap", new_vector(8, number), 0, fail)

\* new_heap_from_data( data, number, cmp ), data not NULL and number its
\* length.
new_heap_from_data(data, fail) ==
    _new_heap("new_heap_from_data", new_vector_from_data(data, 8, Len(data)),
              Len(data), fail)

\* heap_free( heap ).
heap_free ==
    /\ HasHeap
    /\ vectors' = [vectors EXCEPT ![HeapSlice.vector] = vector_free(@)]
    /\ slices' = [slices EXCEPT ![heap.slice] = NoSlice]
    /\ heap' = NoHeap
    /\ last' = Call("heap_free", "0", "none")
    /\ returned' = 0
    /\ UNCHANGED <<alloc_failures, ub, mem>>

\* heap_insert( heap, data ).
heap_insert(data, fail) ==
    /\ HasHeap /\ FreshVector # 0
    /\ fail \in GrowFailures(heap.slice) /\ MayFail(fail)
    /\ \E a \in {_slice_append_item(vectors, HeapSlice, data, FreshVector,
                                    fail)} :
          /\ slices' = [slices EXCEPT ![heap.slice] = a.slice]
          /\ IF a.ret = "0"
             THEN /\ \E hs \in {percolate_up(Mem(a.vectors), a.slice,
                                             _slice_len(a.slice) - 1)} :
                        /\ vectors' = hs.vectors
                        /\ ub' = hs.bad
                  /\ last' = Call("heap_insert", "true", a.grow)
             ELSE /\ vectors' = a.vectors
                  /\ last' = Call("heap_insert", "false", a.grow)
                  /\ UNCHANGED ub
    /\ returned' = 0
    /\ alloc_failures' = Failures(fail)
    /\ UNCHANGED <<heap, mem>>

\* heap_peek( heap ).
heap_peek ==
    /\ HasHeap
    /\ IF _slice_len(HeapSlice) = 0
       THEN /\ returned' = 0
            /\ last' = Call("heap_peek", "NULL", "none")
       ELSE /\ returned' = _pointer_slice_item_at(vectors, HeapSlice, 0)
            /\ last' = Call("heap_peek", "ptr", "none")
    /\ UNCHANGED <<slices, vectors, alloc_failures, ub, heap, mem>>

\* heap_extract that shortens the heap and leaves the root where it is.
heap_extract_keeps_root ==
    /\ HasHeap
    /\ LET sl == HeapSlice
           l == _slice_len(sl)
       IN  IF l = 0
           THEN /\ returned' = 0
                /\ last' = Call("heap_extract", "NULL", "none")
                /\ UNCHANGED slices
           ELSE /\ returned' = _pointer_slice_item_at(vectors, sl, 0)
                /\ last' = Call("heap_extract", "ptr", "none")
                /\ slices' = [slices EXCEPT ![heap.slice].len = l - 1]
    /\ UNCHANGED <<vectors, ub, alloc_failures, heap, mem>>

\* heap_extract( heap ).
heap_extract ==
    /\ HasHeap
    /\ LET sl == HeapSlice
           l == _slice_len(sl)
           shorter == [sl EXCEPT !.len = l - 1]
       IN  IF l = 0
           THEN /\ returned' = 0
                /\ last' = Call("heap_extract", "NULL", "none")
                /\ UNCHANGED <<slices, vectors, ub>>
           ELSE /\ returned' = _pointer_slice_item_at(vectors, sl, 0)
                /\ last' = Call("heap_extract", "ptr", "none")
                /\ slices' = [slices EXCEPT ![heap.slice] = shorter]
                /\ IF l = 1
                   THEN UNCHANGED <<vectors, ub>>
                   ELSE \E hs \in {percolate_down(
                               Mem(_slice_write_item_at(vectors, sl, 0,
                                      _slice_item_at(vectors, sl, l - 1))),
                               shorter, 0)} :
                           /\ vectors' = hs.vectors
                           /\ ub' = hs.bad
    /\ UNCHANGED <<alloc_failures, heap, mem>>

\* The new data handed back whatever the root is.
heap_insert_then_extract_returns_data(data) ==
    /\ HasHeap
    /\ returned' = data
    /\ last' = Call("heap_insert_then_extract", "ptr", "none")
    /\ UNCHANGED <<slices, vectors, alloc_failures, ub, heap, mem>>

\* heap_insert_then_extract( heap, data ).
heap_insert_then_extract(data) ==
    /\ HasHeap
    /\ LET sl == HeapSlice
           root_data == _pointer_slice_item_at(vectors, sl, 0)
       IN  IF _slice_len(sl) = 0
           THEN /\ returned' = data
                /\ UNCHANGED <<vectors, ub>>
           ELSE IF root_data = Undef
                THEN /\ returned' = Undef
                     /\ ub' = TRUE
                     /\ UNCHANGED vectors
                ELSE IF cmp(data, root_data) > 0
                     THEN /\ returned' = data
                          /\ UNCHANGED <<vectors, ub>>
                     ELSE /\ returned' = root_data
                          /\ \E hs \in {percolate_down(
                                  Mem(_pointer_slice_write_item_at(vectors,
                                         sl, 0, data)), sl, 0)} :
                                /\ vectors' = hs.vectors
                                /\ ub' = hs.bad
    /\ last' = Call("heap_insert_then_extract", "ptr", "none")
    /\ UNCHANGED <<slices, alloc_failures, heap, mem>>

\* heap_extract_then_insert( heap, data ); on an empty heap the result of
\* the append is not looked at.
heap_extract_then_insert(data, fail) ==
    /\ HasHeap /\ FreshVector # 0
    /\ LET sl == HeapSlice
       IN  IF _slice_len(sl) = 0
           THEN /\ fail \in GrowFailures(heap.slice) /\ MayFail(fail)
                /\ \E a \in {_slice_append_item(vectors, sl, data,
                                                FreshVector, fail)} :
                      /\ slices' = [slices EXCEPT ![heap.slice] = a.slice]
                      /\ vectors' = a.vectors
                      /\ last' = Call("heap_extract_then_insert", "NULL",
                                      a.grow)
                /\ returned' = 0
                /\ UNCHANGED ub
           ELSE /\ fail = "none"
                /\ returned' = _pointer_slice_item_at(vectors, sl, 0)
                /\ \E hs \in {percolate_down(
                        Mem(_pointer_slice_write_item_at(vectors, sl, 0,
                                                         data)), sl, 0)} :
                      /\ vectors' = hs.vectors
                      /\ ub' = hs.bad
                /\ last' = Call("heap_extract_then_insert", "ptr", "none")
                /\ UNCHANGED slices
    /\ alloc_failures' = Failures(fail)
    /\ UNCHANGED <<heap, mem>>

\* heap_replace_at( heap, item, data ).
heap_replace_at(item, data) ==
    /\ HasHeap
    /\ LET sl == HeapSlice
           old == _pointer_slice_item_at(vectors, sl, item)
       IN  IF item >= _slice_len(sl)
           THEN /\ last' = Call("heap_replace_at", "false", "none")
                /\ UNCHANGED <<vectors, ub>>
           ELSE /\ last' = Call("heap_replace_at", "true", "none")
                /\ IF old = Undef
                   THEN ub' = TRUE /\ UNCHANGED vectors
                   ELSE \E hs \in {updade_item(vectors, sl, item, data,
                                               cmp(old, data) < 0)} :
                           /\ vectors' = hs.vectors
                           /\ ub' = hs.bad
    /\ returned' = 0
    /\ UNCHANGED <<slices, alloc_failures, heap, mem>>

\* heap_update_at( heap, item, data, inc ).
heap_update_at(item, data, inc) ==
    /\ HasHeap
    /\ IF item >= _slice_len(HeapSlice)
       THEN /\ last' = Call("heap_update_at", "false", "none")
            /\ UNCHANGED <<vectors, ub>>
       ELSE /\ last' = Call("heap_update_at", "true", "none")
            /\ \E hs \in {updade_item(vectors, HeapSlice, item, data, inc)} :
                  /\ vectors' = hs.vectors
                  /\ ub' = hs.bad
    /\ returned' = 0
    /\ UNCHANGED <<slices, alloc_failures, heap, mem>>

\* check_children.
RECURSIVE check_children(_, _, _, _)
check_children(vs, sl, n, parent) ==
    LET left == 2 * parent + 1
        right == left + 1
    IN  IF left >= n THEN TRUE
        ELSE IF cmp(_pointer_slice_item_at(vs, sl, parent),
                    _pointer_slice_item_at(vs, sl, left)) < 0
             THEN FALSE
             ELSE IF right < n
                  THEN IF cmp(_pointer_slice_item_at(vs, sl, parent),
                              _pointer_slice_item_at(vs, sl, right)) < 0
                       THEN FALSE
                       ELSE IF ~check_children(vs, sl, n, right) THEN FALSE
                            ELSE check_children(vs, sl, n, left)
                  ELSE check_children(vs, sl, n, left)

\* heap_check( heap ) on a heap none of whose items is unwritten.
heap_check(vs, sl) ==
    IF _slice_len(sl) < 2 THEN TRUE
    ELSE check_children(vs, sl, _slice_len(sl), 0)

\* ---- map.c --------------------------------------------------------------
\* A hash table of MIN_SIZE entries or more, each the head of the list of
\* the entries that collide at its index.  Keys and data are pointers,
\* modelled as positive integers (0 is NULL).  The maps of the model are
\* made with hash and same NULL: the hash of a key is the key itself and
\* two keys are the same when they are equal.
MIN_POWER == 3

MIN_SIZE == 2 ^ MIN_POWER

MIN_COLLISIONS == 4

\* The greatest uint32_t stands as the greatest integer the checker holds:
\* every other number of the model is far below both.
UINT32_MAX == 2147483647

\* The uint32_t a result x >= -UINT32_MAX is stored as.
uint32(x) == IF x < 0 THEN UINT32_MAX + (x + 1) ELSE x

\* The first entries of greatest_prime in get_prime: the greatest prime
\* below 2^3, 2^4 and so on (13 stands where the source has it).
greatest_prime == <<7, 13, 31, 61, 127>>

\* The tables of the model hold up to 2^(MIN_POWER + MaxDoublings) entries.
MaxN2power == 2 ^ (MIN_POWER + MaxDoublings)

\* The keys inserted and deleted in any order, with the data they are given,
\* and the keys that fill a map from empty.
MapKeys == {1, 2, 3, 4, 5, 8}

MapData == {2, 4}

FillKeys == {1, 2, 3, 4, 5, 6, 7, 8, 14, 32}

\* Keys at six indexes of the table of 7 and at one index of the table of
\* 13, inserted and deleted in any order.
CollideKeys == {13, 26, 39, 52, 65, 78}

\* Keys for the sweeps of the table: 8, 1 and 15 share an index of the
\* first table, 9 and 2 another.
SweepKeys == {8, 1, 15, 9, 2, 3}

\* The latest call at which the proc given to map_process_entries stops.
MaxStop == 2

\* The largest size given to new_map, and the keys put in the maps made
\* with a size.
MaxSize == 14

\* The entries a queue holds at most.
MaxQueueLen == 3

\* The entries a fifo holds at most, the nodes given to it at most between
\* new_fifo and fifo_free, and the items of a slice given to it at most.
MaxFifoLen == 2
MaxFifoNodes == 3
MaxFifoSlice == 2


SizedKeys == {1, 8, 14}



\* struct _map_entry: an entry of the table (memset to 0 when the table is
\* allocated), next being the list of the entries allocated behind it.
NoEntry == [key |-> 0, data |-> 0, hash |-> 0, next |-> <<>>]

\* struct map; table is <<>> for NULL, hash_f and same_f are NULL.
NoMap ==
    [live |-> FALSE, table |-> <<>>, nb |-> 0, allocated |-> 0,
     n2power |-> 0, max_collision |-> 0, threshold |-> 0]

\* What the caller knows of the map: the data of the last successful insert
\* of each key that was not deleted since, 0 for the other keys.
NoneInserted ==
    [k \in MapKeys \cup FillKeys \cup CollideKeys \cup SweepKeys |-> 0]

\* The for loop of get_prime, i counted from 0 as in the source.
RECURSIVE get_prime_loop(_, _)
get_prime_loop(new_size, i) ==
    IF i < Len(greatest_prime) /\ new_size > greatest_prime[i + 1]
    THEN get_prime_loop(new_size, i + 1)
    ELSE i

\* get_prime( new_size, &n2power ): the prime returned and n2power.
get_prime(new_size) ==
    LET i == get_prime_loop(new_size, 1) - 1
    IN  [prime |-> greatest_prime[i + 1], n2power |-> 2 ^ (MIN_POWER + i)]

\* new_map( NULL, NULL, size, collisions ); fail names the allocation that
\* fails: "none", "map" (the struct map) or "table".
new_map(size, collisions, fail) ==
    /\ ~map.live
    /\ MayFail(fail)
    /\ fail = "table" => size # 0
    /\ IF fail # "none"
       THEN /\ UNCHANGED map
            /\ last' = Call("new_map", "NULL", "none")
       ELSE /\ \E p \in {get_prime(IF size < MIN_SIZE THEN MIN_SIZE
                                    ELSE size)} :
                  map' = [live |-> TRUE,
                          table |-> IF size # 0
                                    THEN [i \in 1..p.prime |-> NoEntry]
                                    ELSE <<>>,
                          nb |-> 0,
                          allocated |-> IF size # 0 THEN p.prime ELSE 0,
                          n2power |-> IF size # 0 THEN p.n2power ELSE 0,
                          max_collision |-> 0,
                          threshold |-> IF collisions >= MIN_COLLISIONS
                                        THEN collisions
                                        ELSE MIN_COLLISIONS]
            /\ last' = Call("new_map", "ptr", "none")
    /\ inserted' = NoneInserted
    /\ returned' = 0
    /\ alloc_failures' = Failures(fail)
    /\ UNCHANGED beside_map

\* map_free( map ); free_table frees the entries behind the heads that
\* hold a key.
map_free ==
    /\ map.live
    /\ map' = NoMap
    /\ inserted' = NoneInserted
    /\ last' = Call("map_free", "0", "none")
    /\ returned' = 0
    /\ UNCHANGED <<alloc_failures, beside_map>>

\* The entries at one index of the table, the head first.
Chain(entry) ==
    <<[key |-> entry.key, data |-> entry.data, hash |-> entry.hash]>>
       \o entry.next

\* add_entry without the hash of the entry stored in it.
add_entry_without_hash(entry, hash, key, data, fail) ==
    IF entry.key # 0
    THEN IF fail
         THEN [entry |-> entry, count |-> 0]
         ELSE [entry |-> [entry EXCEPT !.next =
                            Append(@, [key |-> key, data |-> data,
                                       hash |-> 0])],
               count |-> 2 + Len(entry.next)]
    ELSE [entry |-> [key |-> key, data |-> data, hash |-> 0,
                     next |-> <<>>],
          count |-> 1]

\* add_entry( entry, hash, key, data ): the list afterwards and the count
\* returned, 0 when the malloc of a new entry fails (fail).  A head without
\* a key is overwritten, its next included.
add_entry(entry, hash, key, data, fail) ==
    IF entry.key # 0
    THEN IF fail
         THEN [entry |-> entry, count |-> 0]
         ELSE [entry |-> [entry EXCEPT !.next =
                            Append(@, [key |-> key, data |-> data,
                                       hash |-> hash])],
               count |-> 2 + Len(entry.next)]
    ELSE [entry |-> [key |-> key, data |-> data, hash |-> hash,
                     next |-> <<>>],
          count |-> 1]

\* The heads that hold a key, without the entries behind them.
RECURSIVE Visited_heads(_, _)
Visited_heads(table, i) ==
    IF i > Len(table) THEN <<>>
    ELSE (IF table[i].key # 0 THEN <<Chain(table[i])[1]>> ELSE <<>>)
            \o Visited_heads(table, i + 1)

\* The entries rehash visits, in order: at each index whose head holds a
\* key, the head and the entries behind it.
RECURSIVE Visited(_, _)
Visited(table, i) ==
    IF i > Len(table) THEN <<>>
    ELSE (IF table[i].key # 0 THEN Chain(table[i]) ELSE <<>>)
            \o Visited(table, i + 1)

\* The loops of rehash from the k-th entry visited; st is new_table, nb,
\* max_chained and whether no add_entry returned 0.
RECURSIVE rehash_loop(_, _, _, _)
rehash_loop(entries, k, st, fail) ==
    IF k > Len(entries) THEN st
    ELSE LET index == entries[k].hash % Len(st.new_table)
         IN  Then(add_entry(st.new_table[index + 1], entries[k].hash,
                            entries[k].key, entries[k].data, fail),
                  LAMBDA a :
                     IF a.count = 0 THEN [st EXCEPT !.ok = FALSE]
                     ELSE Then([new_table |-> [st.new_table EXCEPT
                                                  ![index + 1] = a.entry],
                                nb |-> st.nb + 1,
                                max_chained |-> IF st.max_chained < a.count
                                                THEN a.count
                                                ELSE st.max_chained,
                                ok |-> TRUE],
                               LAMBDA next :
                                  rehash_loop(entries, k + 1, next, fail)))

\* rehash with the new table put in the map before the entries are copied.
rehash_commits_first(m, new_table, new_allocated, n2power, fail) ==
    Then(rehash_loop(Visited(m.table, 1), 1,
                     [new_table |-> new_table, nb |-> 0, max_chained |-> 0,
                      ok |-> TRUE], fail),
         LAMBDA st :
            [map |-> [m EXCEPT !.table = st.new_table,
                               !.allocated = new_allocated,
                               !.n2power = n2power,
                               !.max_collision = uint32(st.max_chained - 1),
                               !.nb = st.nb],
             ok |-> st.ok])

\* rehash( map, new_table, new_allocated, n2power ): the map afterwards and
\* the value returned.
rehash(m, new_table, new_allocated, n2power, fail) ==
    Then(rehash_loop(Visited(m.table, 1), 1,
                     [new_table |-> new_table, nb |-> 0, max_chained |-> 0,
                      ok |-> TRUE], fail),
         LAMBDA st :
            IF ~st.ok THEN [map |-> m, ok |-> FALSE]
            ELSE [map |-> [m EXCEPT !.table = st.new_table,
                                    !.allocated = new_allocated,
                                    !.n2power = n2power,
                                    !.max_collision =
                                        uint32(st.max_chained - 1),
                                    !.nb = st.nb],
                  ok |-> TRUE])

\* make_room that resizes for the number of entries only.
make_room_on_count(m, fail) ==
    IF uint32(4 * (1 + m.nb)) >= uint32(3 * m.allocated)
    THEN IF m.n2power >= UINT32_MAX
         THEN [map |-> m, ret |-> -1, failed |-> FALSE]
         ELSE IF fail = "table"
              THEN [map |-> m, ret |-> -1, failed |-> TRUE]
              ELSE Then(get_prime(IF m.n2power # 0 THEN 2 * m.n2power
                                  ELSE MIN_SIZE),
                        LAMBDA p :
                   IF m.table # <<>>
                   THEN Then(rehash(m, [i \in 1..p.prime |-> NoEntry],
                                    p.prime, p.n2power, fail = "entry"),
                             LAMBDA r :
                                IF r.ok
                                THEN [map |-> r.map, ret |-> 1,
                                      failed |-> FALSE]
                                ELSE [map |-> r.map, ret |-> -1,
                                      failed |-> TRUE])
                   ELSE [map |-> [m EXCEPT
                                     !.table = [i \in 1..p.prime |-> NoEntry],
                                     !.allocated = p.prime,
                                     !.n2power = p.n2power,
                                     !.max_collision = 0,
                                     !.nb = 0],
                         ret |-> 1, failed |-> FALSE])
    ELSE [map |-> m, ret |-> 0, failed |-> FALSE]

\* make_room( map ): the map afterwards, the value returned and whether the
\* allocation named by fail ("table" or "entry") was made and failed.
make_room(m, fail) ==
    IF \/ uint32(4 * (1 + m.nb)) >= uint32(3 * m.allocated)
       \/ m.max_collision > m.threshold
    THEN IF m.n2power >= UINT32_MAX
         THEN [map |-> m, ret |-> -1, failed |-> FALSE]
         ELSE IF fail = "table"
              THEN [map |-> m, ret |-> -1, failed |-> TRUE]
              ELSE Then(get_prime(IF m.n2power # 0 THEN 2 * m.n2power
                                  ELSE MIN_SIZE),
                        LAMBDA p :
                   IF m.table # <<>>
                   THEN Then(rehash(m, [i \in 1..p.prime |-> NoEntry],
                                    p.prime, p.n2power, fail = "entry"),
                             LAMBDA r :
                                IF r.ok
                                THEN [map |-> r.map, ret |-> 1,
                                      failed |-> FALSE]
                                ELSE [map |-> r.map, ret |-> -1,
                                      failed |-> TRUE])
                   ELSE [map |-> [m EXCEPT
                                     !.table = [i \in 1..p.prime |-> NoEntry],
                                     !.allocated = p.prime,
                                     !.n2power = p.n2power,
                                     !.max_collision = 0,
                                     !.nb = 0],
                         ret |-> 1, failed |-> FALSE])
    ELSE [map |-> m, ret |-> 0, failed |-> FALSE]

hash_data(key) == key

\* The head of the list compared with the key, and no entry behind it.
get_entry_head_only(m, key) ==
    IF key = 0 \/ m.table = <<>> THEN 0
    ELSE IF m.table[(hash_data(key) % m.allocated) + 1].key = key THEN 1
         ELSE 0

\* get_entry( map, key, &hash ) with hash_f and same_f NULL: the place of
\* the entry in the list at its index, 1 for the head, 0 for NULL.
get_entry(m, key) ==
    IF key = 0 \/ m.table = <<>> THEN 0
    ELSE LET index == hash_data(key) % m.allocated
             found == {i \in DOMAIN Chain(m.table[index + 1]) :
                          Chain(m.table[index + 1])[i].key = key}
         IN  IF found = {} THEN 0
             ELSE CHOOSE i \in found : \A j \in found : i <= j

\* A same_fct of the caller, for keys that are the same when they are the
\* same pointer.
same_f(key1, key2) == key1 = key2

\* get_entry( map, key, &hash ) on a map whose same_f is not NULL: the keys
\* of the entries handed to same_f as its first argument, in the order of
\* the calls; the loop starts at the entry of the table and ends at the
\* first entry same_f accepts, or with the list.
get_entry_same_f(m, key) ==
    IF key = 0 \/ m.table = <<>> THEN <<>>
    ELSE LET chain == Chain(m.table[(hash_data(key) % m.allocated) + 1])
             found == {i \in DOMAIN chain : same_f(chain[i].key, key)}
         IN  [i \in 1..(IF found = {} THEN Len(chain) ELSE Least(found)) |->
                 chain[i].key]

\* A call of get_entry by map_lookup_entry, map_insert_entry or
\* map_delete_entry on a map made with same_f, whose table is the one the
\* same calls leave with the comparison of pointers; returned takes the keys
\* handed to same_f.
map_get_entry(key) ==
    /\ map.live
    /\ returned' = get_entry_same_f(map, key)
    /\ last' = Call("get_entry", IF get_entry(map, key) = 0 THEN "NULL"
                                 ELSE "ptr", "none")
    /\ UNCHANGED <<map, inserted, alloc_failures, beside_map>>

\* What map_lookup_entry( map, key ) returns.
_map_lookup_entry(m, key) ==
    LET index == hash_data(key) % m.allocated
    IN  IF get_entry(m, key) = 0 THEN 0
        ELSE Chain(m.table[index + 1])[get_entry(m, key)].data

\* map_lookup_entry( map, key ).
map_lookup_entry(key) ==
    /\ map.live
    /\ returned' = _map_lookup_entry(map, key)
    /\ last' = Call("map_lookup_entry",
                    IF returned' = 0 THEN "NULL" ELSE "ptr", "none")
    /\ UNCHANGED <<map, inserted, alloc_failures, beside_map>>

\* What map_insert_entry( map, key, data ) does to the map and returns.
_map_insert_entry(m, key, data, fail) ==
    IF key = 0 \/ get_entry(m, key) # 0
    THEN [map |-> m, ret |-> FALSE, failed |-> FALSE]
    ELSE Then(make_room(m, fail),
              LAMBDA r :
                 IF r.ret = -1
                 THEN [map |-> r.map, ret |-> FALSE, failed |-> r.failed]
                 ELSE LET index == hash_data(key) % r.map.allocated
                      IN  Then(add_entry(r.map.table[index + 1],
                                         hash_data(key), key, data,
                                         fail = "entry"),
                               LAMBDA a :
                                  IF a.count = 0
                                  THEN [map |-> r.map, ret |-> FALSE,
                                        failed |-> TRUE]
                                  ELSE [map |-> [r.map EXCEPT
                                           !.table[index + 1] = a.entry,
                                           !.max_collision =
                                               IF @ < a.count - 1
                                               THEN a.count - 1 ELSE @,
                                           !.nb = uint32(@ + 1)],
                                        ret |-> TRUE, failed |-> FALSE]))

\* map_insert_entry( map, key, data ); fail names the allocation that
\* fails: "none", "table" (the new table of make_room) or "entry" (the
\* first entry add_entry allocates).
map_insert_entry(key, data, fail) ==
    /\ map.live
    /\ MayFail(fail)
    /\ \E r \in {_map_insert_entry(map, key, data, fail)} :
          /\ fail # "none" => r.failed
          /\ r.map.n2power <= MaxN2power
          /\ map' = r.map
          /\ last' = Call("map_insert_entry",
                          IF r.ret THEN "true" ELSE "false", "none")
          /\ inserted' = IF r.ret THEN [inserted EXCEPT ![key] = data]
                         ELSE inserted
    /\ returned' = 0
    /\ alloc_failures' = Failures(fail)
    /\ UNCHANGED beside_map

\* The sequence without its i-th item.
Without(seq, i) == [j \in 1..(Len(seq) - 1) |->
                      IF j < i THEN seq[j] ELSE seq[j + 1]]

\* map_delete_entry( map, key ).
map_delete_entry(key) ==
    /\ map.live
    /\ LET place == get_entry(map, key)
           index == hash_data(key) % map.allocated
       IN  IF place = 0
           THEN /\ UNCHANGED <<map, inserted>>
                /\ last' = Call("map_delete_entry", "false", "none")
           ELSE /\ map' = [map EXCEPT
                      !.table[index + 1] =
                          IF place = 1
                          THEN [@ EXCEPT !.key = 0, !.data = 0, !.hash = 0]
                          ELSE [@ EXCEPT !.next = Without(@, place - 1)],
                      !.nb = uint32(@ - 1)]
                /\ inserted' = [inserted EXCEPT ![key] = 0]
                /\ last' = Call("map_delete_entry", "true", "none")
    /\ returned' = 0
    /\ UNCHANGED <<alloc_failures, beside_map>>

\* map_len( map ).
map_len ==
    /\ map.live
    /\ returned' = map.nb
    /\ last' = Call("map_len", "0", "none")
    /\ UNCHANGED <<map, inserted, alloc_failures, beside_map>>

\* qsort on the items of a slice of keys, with a comparator that orders the
\* keys by their value: the items in nondecreasing order.
RECURSIVE slice_sort_items(_)
slice_sort_items(items) ==
    IF items = <<>> THEN <<>>
    ELSE LET least == CHOOSE i \in DOMAIN items :
                         \A j \in DOMAIN items : items[i] <= items[j]
         IN  <<items[least]>> \o slice_sort_items(Without(items, least))

\* The entries the loops of map_keys and map_process_entries come to, in
\* order, from the i-th entry of the table: at each index whose head holds a
\* key, the head and the entries behind it.
RECURSIVE Swept(_, _)
Swept(table, i) ==
    IF i > Len(table) THEN <<>>
    ELSE (IF table[i].key # 0
          THEN [n \in DOMAIN Chain(table[i]) |->
                  [index |-> i - 1,
                   key |-> Chain(table[i])[n].key,
                   data |-> Chain(table[i])[n].data]]
          ELSE <<>>)
            \o Swept(table, i + 1)

\* The items of the slice map_keys makes.
_map_keys(m, sorted) ==
    LET keys == [n \in DOMAIN Swept(m.table, 1) |-> Swept(m.table, 1)[n].key]
    IN  IF sorted THEN slice_sort_items(keys) ELSE keys

\* map_keys( map, cmp ): returned takes the items of the slice returned;
\* sorted tells whether cmp is given, fail whether new_slice fails.  The
\* slice is made with room for map->nb items, never fewer than the sweep
\* appends, so that no append has to grow it.
map_keys(sorted, fail) ==
    /\ map.live
    /\ MayFail(fail)
    /\ IF fail # "none"
       THEN /\ returned' = <<>>
            /\ last' = Call("map_keys", "NULL", "none")
       ELSE /\ returned' = _map_keys(map, sorted)
            /\ last' = Call("map_keys", "ptr", "none")
    /\ alloc_failures' = Failures(fail)
    /\ UNCHANGED <<map, inserted, beside_map>>

\* map_process_entries( map, proc, context ) with a proc that returns true
\* at its stop-th call, never if stop is 0: returned takes the index, key
\* and data proc was called with, call after call.
map_process_entries(stop) ==
    /\ map.live
    /\ LET all == Swept(map.table, 1)
           stopped == stop \in 1..Len(all)
       IN  /\ returned' = IF stopped THEN SubSeq(all, 1, stop) ELSE all
           /\ last' = Call("map_process_entries",
                           IF stopped THEN "stopped" ELSE "done", "none")
    /\ UNCHANGED <<map, inserted, alloc_failures, beside_map>>

\* ---- queue.c ------------------------------------------------------------

\* The variables no call of queue.c touches.
beside_queue ==
    <<slices, vectors, mem, heap, log, map, inserted, fifo, pc>>

\* The entries the queue may hold at once, and the nodes given to it (0 is
\* NULL).
DllEntries == 1..MaxQueueLen
QueueNodes == {1, 2, 3}

\* struct _dllentry, 0 for NULL; an entry that is not allocated has no node.
NoDllentry == [next |-> 0, prev |-> 0, node |-> 0]

\* struct _queue (node_free is left out: free, which the model does not
\* follow) with the entries it links.
NoQueue ==
    [live |-> FALSE, head |-> 0, tail |-> 0, size |-> 0,
     entries |-> [e \in DllEntries |-> NoDllentry]]

\* The entry the next malloc of a dllentry returns (0 when the model has
\* none).
FreshDllentry ==
    IF \E e \in DllEntries : queue.entries[e].node = 0
    THEN CHOOSE e \in DllEntries :
            /\ queue.entries[e].node = 0
            /\ \A f \in DllEntries : queue.entries[f].node = 0 => e <= f
    ELSE 0

\* new_queue( node_free ): the result of malloc is not tested, so that the
\* queue is written through NULL when malloc fails.
new_queue(fail) ==
    /\ ~ub /\ ~queue.live
    /\ MayFail(fail)
    /\ IF fail # "none"
       THEN /\ ub' = TRUE
            /\ UNCHANGED queue
            /\ last' = Call("new_queue", "NULL", "none")
       ELSE /\ queue' = [NoQueue EXCEPT !.live = TRUE]
            /\ last' = Call("new_queue", "ptr", "none")
            /\ UNCHANGED ub
    /\ returned' = 0
    /\ alloc_failures' = Failures(fail)
    /\ UNCHANGED beside_queue

\* queue_free( q, free_nodes ).
queue_free(free_nodes) ==
    /\ ~ub /\ queue.live
    /\ queue' = NoQueue
    /\ last' = Call("queue_free", "0", "none")
    /\ returned' = 0
    /\ UNCHANGED <<alloc_failures, ub, beside_queue>>

\* queue_head_insert( q, node ).
queue_head_insert(node, fail) ==
    /\ ~ub /\ queue.live /\ FreshDllentry # 0
    /\ MayFail(fail)
    /\ fail # "none" => node # 0
    /\ IF node = 0 \/ fail # "none"
       THEN /\ UNCHANGED queue
            /\ last' = Call("queue_head_insert", "-1", "none")
       ELSE /\ LET entry == FreshDllentry
               IN  queue' = [queue EXCEPT
                      !.entries = [e \in DllEntries |->
                         IF e = entry
                         THEN [next |-> queue.head, prev |-> 0, node |-> node]
                         ELSE IF e = queue.head
                         THEN [queue.entries[e] EXCEPT !.prev = entry]
                         ELSE queue.entries[e]],
                      !.head = entry,
                      !.tail = IF queue.tail = 0 THEN entry ELSE queue.tail,
                      !.size = @ + 1]
            /\ last' = Call("queue_head_insert", "0", "none")
    /\ returned' = 0
    /\ alloc_failures' = Failures(fail)
    /\ UNCHANGED <<ub, beside_queue>>

\* queue_tail_append( q, node ).
queue_tail_append(node, fail) ==
    /\ ~ub /\ queue.live /\ FreshDllentry # 0
    /\ MayFail(fail)
    /\ fail # "none" => node # 0
    /\ IF node = 0 \/ fail # "none"
       THEN /\ UNCHANGED queue
            /\ last' = Call("queue_tail_append", "-1", "none")
       ELSE /\ LET entry == FreshDllentry
               IN  queue' = [queue EXCEPT
                      !.entries = [e \in DllEntries |->
                         IF e = entry
                         THEN [next |-> 0, prev |-> queue.tail, node |-> node]
                         ELSE IF e = queue.tail
                         THEN [queue.entries[e] EXCEPT !.next = entry]
                         ELSE queue.entries[e]],
                      !.tail = entry,
                      !.head = IF queue.head = 0 THEN entry ELSE queue.head,
                      !.size = @ + 1]
            /\ last' = Call("queue_tail_append", "0", "none")
    /\ returned' = 0
    /\ alloc_failures' = Failures(fail)
    /\ UNCHANGED <<ub, beside_queue>>

\* queue_length( q ).
queue_length ==
    /\ ~ub /\ queue.live
    /\ returned' = queue.size
    /\ last' = Call("queue_length", "0", "none")
    /\ UNCHANGED <<queue, alloc_failures, ub, beside_queue>>

\* queue_head_peek( q ).
queue_head_peek ==
    /\ ~ub /\ queue.live
    /\ returned' = IF queue.head = 0 THEN 0
                   ELSE queue.entries[queue.head].node
    /\ last' = Call("queue_head_peek",
                    IF queue.head = 0 THEN "NULL" ELSE "ptr", "none")
    /\ UNCHANGED <<queue, alloc_failures, ub, beside_queue>>

\* queue_tail_peek( q ).
queue_tail_peek ==
    /\ ~ub /\ queue.live
    /\ returned' = IF queue.tail = 0 THEN 0
                   ELSE queue.entries[queue.tail].node
    /\ last' = Call("queue_tail_peek",
                    IF queue.tail = 0 THEN "NULL" ELSE "ptr", "none")
    /\ UNCHANGED <<queue, alloc_failures, ub, beside_queue>>

\* queue_head_extract( q ).
queue_head_extract ==
    /\ ~ub /\ queue.live
    /\ IF queue.head = 0
       THEN /\ UNCHANGED queue
            /\ returned' = 0
            /\ last' = Call("queue_head_extract", "NULL", "none")
       ELSE /\ LET head == queue.head
                   next == queue.entries[head].next
               IN  queue' = [queue EXCEPT
                      !.entries = [e \in DllEntries |->
                         IF e = head THEN NoDllentry
                         ELSE IF e = next
                         THEN [queue.entries[e] EXCEPT !.prev = 0]
                         ELSE queue.entries[e]],
                      !.head = next,
                      !.tail = IF next = 0 THEN 0 ELSE queue.tail,
                      !.size = @ - 1]
            /\ returned' = queue.entries[queue.head].node
            /\ last' = Call("queue_head_extract", "ptr", "none")
    /\ UNCHANGED <<alloc_failures, ub, beside_queue>>

\* queue_tail_extract( q ).
queue_tail_extract ==
    /\ ~ub /\ queue.live
    /\ IF queue.tail = 0
       THEN /\ UNCHANGED queue
            /\ returned' = 0
            /\ last' = Call("queue_tail_extract", "NULL", "none")
       ELSE /\ LET tail == queue.tail
                   prev == queue.entries[tail].prev
               IN  queue' = [queue EXCEPT
                      !.entries = [e \in DllEntries |->
                         IF e = tail THEN NoDllentry
                         ELSE IF e = prev
                         THEN [queue.entries[e] EXCEPT !.next = 0]
                         ELSE queue.entries[e]],
                      !.tail = prev,
                      !.head = IF prev = 0 THEN 0 ELSE queue.head,
                      !.size = @ - 1]
            /\ returned' = queue.entries[queue.tail].node
            /\ last' = Call("queue_tail_extract", "ptr", "none")
    /\ UNCHANGED <<alloc_failures, ub, beside_queue>>

\* The loop of queue_process_nodes from entry, i calls made, with a fct
\* that returns true at its stop-th call and false at the others: the index
\* and node of each call of fct and what it returned.  What fct returns is
\* not looked at.
RECURSIVE queue_process_loop(_, _, _, _)
queue_process_loop(q, entry, i, stop) ==
    IF entry = 0 THEN <<>>
    ELSE <<[index |-> i, node |-> q.entries[entry].node,
            ret |-> (i + 1 = stop)]>>
            \o queue_process_loop(q, q.entries[entry].next, i + 1, stop)

\* queue_process_nodes( q, fct, context ): returned takes the calls of fct.
queue_process_nodes(stop) ==
    /\ ~ub /\ queue.live
    /\ returned' = queue_process_loop(queue, queue.head, 0, stop)
    /\ last' = Call("queue_process_nodes", "0", "none")
    /\ UNCHANGED <<queue, alloc_failures, ub, beside_queue>>

\* ---- fifo.c -------------------------------------------------------------

\* The entries the fifo may hold at once.
SllEntries == 1..MaxFifoLen

\* struct _slltentry, 0 for NULL: data is a node, or a slice handle when
\* slice is set; an entry that is not allocated has no data.
NoSlltentry == [next |-> 0, data |-> 0, slice |-> FALSE]

\* struct _fifo (node_free is left out: free, which the model does not
\* follow) with the entries it links.
NoFifo ==
    [live |-> FALSE, head |-> 0, tail |-> 0, start |-> 0,
     entries |-> [e \in SllEntries |-> NoSlltentry]]

\* The entry the next malloc of a slltentry returns (0 when the model has
\* none).
FreshSlltentry ==
    IF \E e \in SllEntries : fifo.entries[e].data = 0
    THEN CHOOSE e \in SllEntries :
            /\ fifo.entries[e].data = 0
            /\ \A f \in SllEntries : fifo.entries[f].data = 0 => e <= f
    ELSE 0

\* Slice s is in the fifo.
InFifo(s) ==
    \E e \in SllEntries : fifo.entries[e].slice /\ fifo.entries[e].data = s

\* The items of slice s, in index order.
SliceItems(s) ==
    [i \in 1.._slice_len(slices[s]) |->
        _pointer_slice_item_at(vectors, slices[s], i - 1)]

\* new_fifo( node_free ).
new_fifo(fail) ==
    /\ ~ub /\ ~fifo.live
    /\ MayFail(fail)
    /\ IF fail # "none"
       THEN /\ UNCHANGED fifo
            /\ last' = Call("new_fifo", "NULL", "none")
       ELSE /\ fifo' = [NoFifo EXCEPT !.live = TRUE]
            /\ last' = Call("new_fifo", "ptr", "none")
    /\ log' = NoLog
    /\ returned' = 0
    /\ alloc_failures' = Failures(fail)
    /\ UNCHANGED <<slices, vectors, ub, mem, heap, map, inserted, queue, pc>>

\* The entry linked behind the tail by fifo_insert and fifo_insert_slice.
sll_append(q, entry, data, slice) ==
    [q EXCEPT
        !.entries = [e \in SllEntries |->
           IF e = entry THEN [next |-> 0, data |-> data, slice |-> slice]
           ELSE IF e = q.tail THEN [q.entries[e] EXCEPT !.next = entry]
           ELSE q.entries[e]],
        !.tail = entry,
        !.head = IF q.head = 0 THEN entry ELSE q.head]

\* fifo_insert( q, data ): log.data takes the nodes given to the fifo, in
\* order.
fifo_insert(data, fail) ==
    /\ ~ub /\ fifo.live /\ FreshSlltentry # 0
    /\ Len(log.data) < MaxFifoNodes
    /\ MayFail(fail)
    /\ fail # "none" => data # 0
    /\ IF data = 0 \/ fail # "none"
       THEN /\ UNCHANGED <<fifo, log>>
            /\ last' = Call("fifo_insert", "-1", "none")
       ELSE /\ fifo' = sll_append(fifo, FreshSlltentry, data, FALSE)
            /\ log' = [log EXCEPT !.data = Append(@, data)]
            /\ last' = Call("fifo_insert", "0", "none")
    /\ returned' = 0
    /\ alloc_failures' = Failures(fail)
    /\ UNCHANGED <<slices, vectors, ub, mem, heap, map, inserted, queue, pc>>

\* fifo_insert_slice( q, slice ) with slice s, which the caller holds and
\* has not given to the fifo yet; sizeof( void * ) is 8.  log.data takes
\* the items of the slice.
fifo_insert_slice(s, fail) ==
    /\ ~ub /\ fifo.live /\ FreshSlltentry # 0
    /\ Valid(s) /\ ~InFifo(s)
    /\ Len(log.data) + _slice_len(slices[s]) <= MaxFifoNodes
    /\ MayFail(fail)
    /\ fail # "none" => vectors[slices[s].vector].item_size = 8
    /\ IF vectors[slices[s].vector].item_size # 8 \/ fail # "none"
       THEN /\ UNCHANGED <<fifo, log>>
            /\ last' = Call("fifo_insert_slice", "-1", "none")
       ELSE /\ fifo' = sll_append(fifo, FreshSlltentry, s, TRUE)
            /\ log' = [log EXCEPT !.data = @ \o SliceItems(s)]
            /\ last' = Call("fifo_insert_slice", "0", "none")
    /\ returned' = 0
    /\ alloc_failures' = Failures(fail)
    /\ UNCHANGED <<slices, vectors, ub, mem, heap, map, inserted, queue, pc>>

\* sll_next( q, head ).
sll_next(q, head) ==
    [q EXCEPT
        !.entries = [@ EXCEPT ![head] = NoSlltentry],
        !.head = q.entries[head].next,
        !.tail = IF q.entries[head].next = 0 THEN 0 ELSE q.tail,
        !.start = 0]

\* A read that is not within the block of the vector.
Outside == 0 - 1

\* What the read of the item at index of slice sl gives fifo_extract: the
\* item when the index is within the slice; beyond the slice, whatever the
\* block holds there, any pointer when that cell was never written, and
\* Outside when there is no such cell in the block.
ItemsRead(vs, sl, index) ==
    IF sl.start + index >= vs[sl.vector].number THEN {Outside}
    ELSE IF /\ index >= _slice_len(sl)
            /\ _pointer_slice_item_at(vs, sl, index) = Undef
         THEN Values \cup {0}
         ELSE {_pointer_slice_item_at(vs, sl, index)}

\* fifo_extract( q ): log.out takes the nodes returned from a fifo that
\* was not empty, in order, MaxFifoNodes of them at most.
fifo_extract ==
    /\ ~ub /\ fifo.live
    /\ fifo.head = 0 \/ Len(log.out) < MaxFifoNodes
    /\ IF fifo.head = 0
       THEN /\ returned' = 0
            /\ last' = Call("fifo_extract", "NULL", "none")
            /\ UNCHANGED <<fifo, slices, vectors, log, ub>>
       ELSE LET head == fifo.head
                data == fifo.entries[head].data
            IN  IF fifo.entries[head].slice
                THEN \E node \in ItemsRead(vectors, slices[data], fifo.start) :
                        IF node = Outside
                        THEN /\ ub' = TRUE
                             /\ returned' = 0
                             /\ last' = Call("fifo_extract", "NULL", "none")
                             /\ UNCHANGED <<fifo, slices, vectors, log>>
                        ELSE /\ IF fifo.start + 1 >= _slice_len(slices[data])
                                THEN /\ vectors' = [vectors EXCEPT
                                           ![slices[data].vector] =
                                               vector_free(@)]
                                     /\ slices' = [slices EXCEPT
                                           ![data] = NoSlice]
                                     /\ fifo' = sll_next(fifo, head)
                                ELSE /\ fifo' = [fifo EXCEPT !.start = @ + 1]
                                     /\ UNCHANGED <<slices, vectors>>
                             /\ returned' = node
                             /\ log' = [log EXCEPT !.out = Append(@, node)]
                             /\ last' = Call("fifo_extract",
                                             IF node = 0 THEN "NULL"
                                             ELSE "ptr", "none")
                             /\ UNCHANGED ub
                ELSE /\ fifo' = sll_next(fifo, head)
                     /\ returned' = data
                     /\ log' = [log EXCEPT !.out = Append(@, data)]
                     /\ last' = Call("fifo_extract", "ptr", "none")
                     /\ UNCHANGED <<slices, vectors, ub>>
    /\ UNCHANGED <<alloc_failures, mem, heap, map, inserted, queue, pc>>

\* The loop of fifo_free from entry: the slices and vectors after the
\* slice_free of each slice still in the fifo.
RECURSIVE fifo_free_loop(_, _, _)
fifo_free_loop(q, entry, st) ==
    IF entry = 0 THEN st
    ELSE fifo_free_loop(q, q.entries[entry].next,
            IF q.entries[entry].slice
            THEN [slices |-> [st.slices EXCEPT
                                ![q.entries[entry].data] = NoSlice],
                  vectors |-> [st.vectors EXCEPT
                                 ![st.slices[q.entries[entry].data].vector] =
                                     vector_free(@)]]
            ELSE st)

\* fifo_free( q, free_nodes ).
fifo_free(free_nodes) ==
    /\ ~ub /\ fifo.live
    /\ \E st \in {fifo_free_loop(fifo, fifo.head,
                                 [slices |-> slices, vectors |-> vectors])} :
          /\ slices' = st.slices
          /\ vectors' = st.vectors
    /\ fifo' = NoFifo
    /\ log' = NoLog
    /\ returned' = 0
    /\ last' = Call("fifo_free", "0", "none")
    /\ UNCHANGED <<alloc_failures, ub, mem, heap, map, inserted, queue, pc>>

\* ---- the specifications -------------------------------------------------

Init ==
    /\ slices = [s \in SliceIds |-> NoSlice]
    /\ vectors = [v \in VectorIds |-> NoVector]
    /\ last = Call("init", "0", "none")
    /\ alloc_failures = 0
    /\ ub = FALSE
    /\ mem = NoMem
    /\ heap = NoHeap
    /\ returned = 0
    /\ log = NoLog
    /\ map = NoMap
    /\ inserted = NoneInserted
    /\ queue = NoQueue
    /\ fifo = NoFifo
    /\ pc = NoPc

\* The calls of the model keep every slice within [0, bound]: a call that
\* would take slice s further is not made.
Room(s, bound) == slices[s].live /\ slices[s].start + slices[s].len < bound

LenFits(s, len, bound) ==
    /\ Valid(s)
    /\ len > _slice_cap(vectors, slices[s]) \/ slices[s].start + len <= bound

DataArgs(bound) == UNION {[1..n -> Values] : n \in 0..(bound - 1)}

\* The allocations of vector.c may fail; those of a struct slice may fail
\* where AllocArgs is given "slice" too.
AllocArgs == {"none", "data", "vector"}

\* The calls on slice s, with indexes and lengths up to bound.
SliceCalls(s, bound) ==
    \/ \E n \in 0..bound : LenFits(s, n, bound) /\ slice_update_len(s, n)
    \/ \E i \in 0..bound : slice_item_at(s, i)
    \/ \E i \in 0..bound, d \in Values : slice_write_item_at(s, i, d)
    \/ \E i \in 0..bound, d \in Values, f \in AllocArgs :
          (i <= slices[s].len => Room(s, bound))
             /\ slice_insert_item_at(s, i, d, f)
    \/ \E i \in 0..bound : slice_remove_item_at(s, i)
    \/ \E i, j \in 0..bound : slice_swap_items(s, i, j)
    \/ \E d \in Values, f \in AllocArgs :
          Room(s, bound) /\ slice_append_item(s, d, f)

\* Slices that share vectors.
Next ==
    \/ \E z \in ItemSizes, n \in 0..(MaxEnd - 1), f \in AllocArgs :
          new_slice(z, n, f)
    \/ \E d \in DataArgs(MaxEnd), z \in ItemSizes, f \in AllocArgs :
          new_slice_from_data(d, z, f)
    \/ \E s \in SliceIds, i, j \in 0..MaxEnd, f \in {"none", "slice"} :
          new_slice_from_slice(s, i, j, f)
    \/ \E s \in SliceIds, f \in {"none", "slice"} : slice_dup(s, f)
    \/ \E s \in SliceIds : SliceCalls(s, MaxEnd)
    \/ \E s \in SliceIds : slice_free(s)
    \/ \E s \in SliceIds : use_after_free(s)

Spec == Init /\ [][Next]_vars

\* One slice at a time, up to MaxSoloEnd items.
NoSlices == \A s \in SliceIds : ~slices[s].live

NextSolo ==
    \/ \E z \in ItemSizes, n \in 0..(MaxSoloEnd - 1),
          f \in AllocArgs \cup {"slice"} : NoSlices /\ new_slice(z, n, f)
    \/ \E d \in DataArgs(MaxSoloEnd), z \in ItemSizes,
          f \in AllocArgs \cup {"slice"} :
          NoSlices /\ new_slice_from_data(d, z, f)
    \/ \E s \in SliceIds : SliceCalls(s, MaxSoloEnd)
    \/ \E s \in SliceIds : slice_free(s)

SpecSolo == Init /\ [][NextSolo]_vars

\* Two slices after a fork: slice 1 made by new_slice_from_data, slice 2 by
\* new_slice_from_slice( 1, i, len ) and then moved to a vector of its own
\* by an append.
InitForked ==
    \E d \in DataArgs(MaxEnd), i \in 0..MaxEnd, x \in Values :
       /\ i <= Len(d)
       /\ LET v0 == [[v \in VectorIds |-> NoVector] EXCEPT
                        ![1] = new_vector_from_data(d, 4, Len(d))]
              s0 == [[s \in SliceIds |-> NoSlice] EXCEPT
                        ![1] = [live |-> TRUE, vector |-> 1, start |-> 0,
                                len |-> Len(d)]]
              r == _new_slice_from_slice(s0, v0, 1, 2, i, Len(d), "none")
              a == _slice_append_item(r.vectors, r.slices[2], x, 2, "none")
          IN  /\ slices = [r.slices EXCEPT ![2] = a.slice]
              /\ vectors = a.vectors
              /\ last = Call("slice_append_item", a.ret, a.grow)
       /\ alloc_failures = 0
       /\ ub = FALSE
       /\ mem = NoMem
       /\ heap = NoHeap
       /\ returned = 0
       /\ log = NoLog
       /\ map = NoMap
       /\ inserted = NoneInserted
       /\ queue = NoQueue
       /\ fifo = NoFifo
       /\ pc = NoPc

NextForked == \E s \in SliceIds : SliceCalls(s, MaxEnd)

SpecForked == InitForked /\ [][NextForked]_vars

\* A slice of items of any size whose bytes are all different (each byte of
\* the block holds its own offset + 1), and the swaps made on it.
SwapItemSizes == (1..MaxItemSize) \cup {16}

InitSwap ==
    /\ slices = [s \in SliceIds |-> NoSlice]
    /\ vectors = [v \in VectorIds |-> NoVector]
    /\ last = Call("init", "0", "none")
    /\ alloc_failures = 0
    /\ ub = FALSE
    /\ heap = NoHeap
    /\ returned = 0
    /\ log = NoLog
    /\ map = NoMap
    /\ inserted = NoneInserted
    /\ queue = NoQueue
    /\ fifo = NoFifo
    /\ pc = NoPc
    /\ \E z \in SwapItemSizes, n \in 2..MaxSwapNumber, b \in 0..MaxSwapNumber,
          l \in 0..MaxSwapNumber :
          /\ b + l <= n
          /\ mem = [item_size |-> z, number |-> n, start |-> b, len |-> l,
                    bytes |-> [p \in 1..(n * z) |-> p], swaps |-> 0]

NextSwap == \E i, j \in 0..MaxSwapNumber : slice_swap_bytes(i, j)

SpecSwap == InitSwap /\ [][NextSwap]_vars

\* A heap and the calls on it, up to MaxHeapLen items; the heap is made by
\* new_heap, by new_heap_from_data, or by new_heap_from_slice on a slice
\* that new_slice_from_data made and slice_dup may have shared.
HeapInputs == {1, 3, 5}

HeapData(values, bound) == UNION {[1..n -> values] : n \in 0..bound}

HeapRoom == heap.live /\ _slice_len(HeapSlice) < MaxHeapLen

NextHeap ==
    \/ \E n \in 0..1, f \in AllocArgs \cup {"heap"} :
          NoSlices /\ new_heap(n, f) /\ UNCHANGED beside_heap
    \/ \E d \in HeapData(HeapInputs, MaxHeapLen - 1),
          f \in AllocArgs \cup {"heap"} :
          NoSlices /\ new_heap_from_data(d, f) /\ UNCHANGED beside_heap
    \/ \E d \in HeapData(HeapInputs, MaxHeapLen - 1) :
          ~heap.live /\ NoSlices /\ new_slice_from_data(d, 8, "none")
    \/ \E s \in SliceIds : ~heap.live /\ slice_dup(s, "none")
    \/ \E s \in SliceIds, f \in {"none", "heap"} :
          new_heap_from_slice(s, f) /\ UNCHANGED beside_heap
    \/ \E d \in HeapInputs, f \in AllocArgs :
          HeapRoom /\ heap_insert(d, f) /\ UNCHANGED beside_heap
    \/ heap_peek /\ UNCHANGED beside_heap
    \/ heap_extract /\ UNCHANGED beside_heap
    \/ \E d \in HeapInputs :
          heap_insert_then_extract(d) /\ UNCHANGED beside_heap
    \/ \E d \in HeapInputs, f \in AllocArgs :
          heap_extract_then_insert(d, f) /\ UNCHANGED beside_heap
    \/ \E i \in 0..MaxHeapLen, d \in HeapInputs :
          heap_replace_at(i, d) /\ UNCHANGED beside_heap
    \/ \E i \in 0..MaxHeapLen, d \in HeapInputs, inc \in BOOLEAN :
          heap_update_at(i, d, inc) /\ UNCHANGED beside_heap
    \/ heap_free /\ UNCHANGED beside_heap
    \/ \E s \in SliceIds : s # heap.slice /\ slice_free(s)
    \/ \E s \in SliceIds : use_after_free(s)

SpecHeap == Init /\ [][NextHeap]_vars

\* The updates of a heap: a heap of up to MaxHeapLen items is made by
\* new_heap_from_data, and its items are replaced by heap_replace_at and by
\* heap_update_at in either direction.
NextReplace ==
    \/ \E d \in HeapData(HeapInputs, MaxHeapLen) :
          NoSlices /\ new_heap_from_data(d, "none") /\ UNCHANGED beside_heap
    \/ \E i \in 0..MaxHeapLen, d \in HeapInputs :
          heap_replace_at(i, d) /\ UNCHANGED beside_heap
    \/ \E i \in 0..MaxHeapLen, d \in HeapInputs, inc \in BOOLEAN :
          heap_update_at(i, d, inc) /\ UNCHANGED beside_heap
    \/ heap_free /\ UNCHANGED beside_heap

SpecReplace == Init /\ [][NextReplace]_vars

\* Growth: a full slice of GrowCapacities items from the start of its
\* vector, alone on it or with a second slice that slice_dup made, and the
\* appends that grow the vector; the capacities are those around the
\* minimum allocation, the powers of two, the threshold and the first
\* linear increments; the item appended is always the same.
GrowCapacities ==
    0..17 \cup {31, 32, 33, 2047, 2048}
          \cup {ARRAY_ALLOCATION_NUMBER_THRESHOLD * k + d :
                   k \in 1..2, d \in {-2, -1, 0, 7, 8}}

InitGrow ==
    /\ \E c \in GrowCapacities, shared \in BOOLEAN :
          /\ vectors = [v \in VectorIds |->
                IF v = 1
                THEN IF shared THEN vector_share(new_vector(4, c))
                     ELSE new_vector(4, c)
                ELSE NoVector]
          /\ slices = [s \in SliceIds |->
                IF s = 1 \/ (s = 2 /\ shared)
                THEN [live |-> TRUE, vector |-> 1, start |-> 0, len |-> c]
                ELSE NoSlice]
    /\ last = Call("init", "0", "none")
    /\ alloc_failures = 0
    /\ ub = FALSE
    /\ mem = NoMem
    /\ heap = NoHeap
    /\ returned = 0
    /\ log = NoLog
    /\ map = NoMap
    /\ inserted = NoneInserted
    /\ queue = NoQueue
    /\ fifo = NoFifo
    /\ pc = NoPc

NextGrow ==
    \E s \in SliceIds, f \in AllocArgs :
       /\ Valid(s)
       /\ slices[s].len = _slice_cap(vectors, slices[s])
       /\ slice_append_item(s, 1, f)

SpecGrow == InitGrow /\ [][NextGrow]_vars

\* The loops of heap.c one iteration at a time.  pc.op is the call that is
\* running, "heap_update_at" or "new_heap_from_slice", pc.loop the loop it
\* is in, "percolate_up", "percolate_down" or "none", pc.from the index the
\* loop is at (the index it ended at once it has returned), and pc.i the
\* index of the do ... while of new_heap_from_slice.
beside_steps ==
    <<slices, alloc_failures, ub, mem, returned, log, map, inserted, queue,
      fifo>>

Running == pc.op # "none"

\* The return of percolate_up or percolate_down to the call that is
\* running: heap_update_at returns in its turn, new_heap_from_slice goes on
\* to the test of its loop.
percolate_return(p) ==
    [p EXCEPT !.loop = "none",
              !.op = IF @ = "heap_update_at" THEN "none" ELSE @]

\* percolate_up( heap, from ) and percolate_down( heap, from ) up to their
\* loops: the call returns at once, or the loop is entered.
percolate_up_call(p, sl, from) ==
    IF from >= _slice_len(sl) \/ from < 1
    THEN percolate_return([p EXCEPT !.from = from])
    ELSE [p EXCEPT !.from = from, !.loop = "percolate_up"]

percolate_down_call(p, sl, from) ==
    IF from >= _slice_len(sl) \div 2
    THEN percolate_return([p EXCEPT !.from = from])
    ELSE [p EXCEPT !.from = from, !.loop = "percolate_down"]

\* heap_update_at( heap, item, data, inc ) up to the loop of the percolate
\* it calls.
heap_update_at_begin(item, data, inc) ==
    /\ ~ub /\ heap.live /\ ~Running
    /\ IF item >= _slice_len(HeapSlice)
       THEN /\ last' = Call("heap_update_at", "false", "none")
            /\ UNCHANGED <<vectors, pc>>
       ELSE /\ last' = Call("heap_update_at", "true", "none")
            /\ vectors' = _pointer_slice_write_item_at(vectors, HeapSlice,
                                                       item, data)
            /\ pc' = IF inc
                     THEN percolate_up_call(
                             [pc EXCEPT !.op = "heap_update_at"],
                             HeapSlice, item)
                     ELSE percolate_down_call(
                             [pc EXCEPT !.op = "heap_update_at"],
                             HeapSlice, item)
    /\ UNCHANGED heap
    /\ UNCHANGED beside_steps

\* new_heap_from_slice( slice, cmp ) on slice s up to the loop of its first
\* percolate_down; the struct heap is allocated.
new_heap_from_slice_begin(s) ==
    /\ ~heap.live /\ Valid(s) /\ ~Running
    /\ heap' = [live |-> TRUE, slice |-> s]
    /\ LET n == _slice_len(slices[s])
           i == (n - 1) \div 2
       IN  pc' = IF n > 1
                 THEN percolate_down_call(
                         [pc EXCEPT !.op = "new_heap_from_slice", !.i = i],
                         slices[s], i)
                 ELSE pc
    /\ last' = Call("new_heap_from_slice", "ptr", "none")
    /\ UNCHANGED vectors
    /\ UNCHANGED beside_steps

\* One iteration of the while ( from ) of percolate_up.
percolate_up_step ==
    /\ pc.loop = "percolate_up"
    /\ LET sl == HeapSlice
           from == pc.from
           even == from % 2 = 0
           parent == IF even THEN from \div 2 - 1 ELSE (from - 1) \div 2
           bigger_child ==
               IF even /\ cmp(_pointer_slice_item_at(vectors, sl, from),
                              _pointer_slice_item_at(vectors, sl, from - 1))
                             <= 0
               THEN from - 1
               ELSE from
       IN  IF cmp(_pointer_slice_item_at(vectors, sl, parent),
                  _pointer_slice_item_at(vectors, sl, bigger_child)) >= 0
           THEN /\ pc' = percolate_return(pc)
                /\ UNCHANGED vectors
           ELSE /\ vectors' = slice_swap_pointers(vectors, sl, parent,
                                                  bigger_child)
                /\ pc' = IF parent # 0 THEN [pc EXCEPT !.from = parent]
                         ELSE percolate_return([pc EXCEPT !.from = parent])
    /\ UNCHANGED <<heap, last>>
    /\ UNCHANGED beside_steps

\* One iteration of the while ( 1 ) of percolate_down.
percolate_down_step ==
    /\ pc.loop = "percolate_down"
    /\ LET sl == HeapSlice
           n == _slice_len(sl)
           from == pc.from
           left == 2 * from + 1
           right == left + 1
           bigger ==
               IF right >= n THEN left
               ELSE IF cmp(_pointer_slice_item_at(vectors, sl, left),
                           _pointer_slice_item_at(vectors, sl, right)) < 0
                    THEN right
                    ELSE left
       IN  IF left >= n
           THEN /\ pc' = percolate_return(pc)
                /\ UNCHANGED vectors
           ELSE IF cmp(_pointer_slice_item_at(vectors, sl, from),
                       _pointer_slice_item_at(vectors, sl, bigger)) >= 0
                THEN /\ pc' = percolate_return(pc)
                     /\ UNCHANGED vectors
                ELSE /\ vectors' = slice_swap_pointers(vectors, sl, from,
                                                       bigger)
                     /\ pc' = [pc EXCEPT !.from = bigger]
    /\ UNCHANGED <<heap, last>>
    /\ UNCHANGED beside_steps

\* A loop of new_heap_from_slice whose test is always true, with an index
\* of four bits: the index wraps and the loop goes on.
new_heap_from_slice_loop_forever ==
    /\ pc.op = "new_heap_from_slice" /\ pc.loop = "none"
    /\ pc' = percolate_down_call([pc EXCEPT !.i = (pc.i - 1) % 16],
                                 HeapSlice, (pc.i - 1) % 16)
    /\ UNCHANGED <<vectors, heap, last>>
    /\ UNCHANGED beside_steps

\* The test while ( i-- ) of new_heap_from_slice and the call of
\* percolate_down that follows it; the index is not read after the loop.
new_heap_from_slice_loop ==
    /\ pc.op = "new_heap_from_slice" /\ pc.loop = "none"
    /\ pc' = IF pc.i = 0
             THEN [pc EXCEPT !.op = "none"]
             ELSE percolate_down_call([pc EXCEPT !.i = pc.i - 1],
                                      HeapSlice, pc.i - 1)
    /\ UNCHANGED <<vectors, heap, last>>
    /\ UNCHANGED beside_steps

\* The steps of a call that is running.
Steps ==
    \/ percolate_up_step
    \/ percolate_down_step
    \/ new_heap_from_slice_loop

\* An array of up to MaxHeapLen pointers made a slice and a heap, whose
\* items are then updated in either direction.
NextSteps ==
    \/ \E d \in HeapData(HeapInputs, MaxHeapLen) :
          NoSlices /\ ~heap.live /\ new_slice_from_data(d, 8, "none")
    \/ \E s \in SliceIds : new_heap_from_slice_begin(s)
    \/ \E i \in 0..MaxHeapLen, d \in HeapInputs, inc \in BOOLEAN :
          heap_update_at_begin(i, d, inc)
    \/ Steps

\* A call that is running goes on.
SpecSteps == Init /\ [][NextSteps]_vars /\ WF_vars(Steps)

\* Heap sort: a heap is made from an array of up to MaxSortLen pointers,
\* by new_heap_from_data or by new_slice_from_data and new_heap_from_slice,
\* and emptied by heap_extract; log keeps the array and the items
\* extracted, in the order of the calls.
SortData == HeapData(HeapValues, MaxSortLen)

sort_from_data(data) ==
    /\ NoSlices /\ new_heap_from_data(data, "none")
    /\ log' = [data |-> data, out |-> <<>>]
    /\ UNCHANGED <<map, inserted, queue, fifo, pc>>

sort_slice(data) ==
    /\ ~heap.live /\ NoSlices /\ new_slice_from_data(data, 8, "none")

sort_from_slice(s) ==
    /\ new_heap_from_slice(s, "none")
    /\ log' = [data |-> [i \in 1.._slice_len(slices[s]) |->
                             _pointer_slice_item_at(vectors, slices[s], i - 1)],
               out |-> <<>>]
    /\ UNCHANGED <<map, inserted, queue, fifo, pc>>

sort_extract ==
    /\ heap_extract
    /\ log' = IF last'.ret = "ptr"
              THEN [log EXCEPT !.out = Append(@, returned')]
              ELSE log
    /\ UNCHANGED <<map, inserted, queue, fifo, pc>>

sort_free ==
    /\ heap_free
    /\ log' = NoLog
    /\ UNCHANGED <<map, inserted, queue, fifo, pc>>

NextSort ==
    \/ \E d \in SortData : sort_from_data(d)
    \/ \E d \in SortData : sort_slice(d)
    \/ \E s \in SliceIds : sort_from_slice(s)
    \/ sort_extract
    \/ sort_free

SpecSort == Init /\ [][NextSort]_vars

\* A map and the calls on it, with the keys MapKeys and NULL inserted,
\* deleted and looked up in any order.
NextMap ==
    \/ \E size \in 0..1, f \in {"none", "map", "table"} : new_map(size, 0, f)
    \/ \E k \in MapKeys \cup {0}, d \in MapData,
          f \in {"none", "table", "entry"} : map_insert_entry(k, d, f)
    \/ \E k \in MapKeys \cup {0} : map_delete_entry(k)
    \/ \E k \in MapKeys \cup {0} : map_lookup_entry(k)
    \/ map_len
    \/ map_free

SpecMap == Init /\ [][NextMap]_vars

\* A map made with size 0 and filled with the keys FillKeys, each given
\* twice itself as data, in any order.
NextFill ==
    \/ new_map(0, 0, "none")
    \/ \E k \in FillKeys : map_insert_entry(k, 2 * k, "none")
    \/ \E k \in FillKeys : map_lookup_entry(k)
    \/ map_len

SpecFill == Init /\ [][NextFill]_vars

\* A map made with size 0 and the keys CollideKeys, each given twice itself
\* as data, inserted and deleted in any order; an allocation may fail.
NextCollide ==
    \/ new_map(0, 0, "none")
    \/ \E k \in CollideKeys, f \in {"none", "table", "entry"} :
          map_insert_entry(k, 2 * k, f)
    \/ \E k \in CollideKeys : map_delete_entry(k)

SpecCollide == Init /\ [][NextCollide]_vars

\* A map made with size 0, the keys SweepKeys inserted and deleted in any
\* order, and the sweeps of the table: map_keys without and with a
\* comparator, map_process_entries with a proc that stops or not.
NextSweep ==
    \/ new_map(0, 0, "none")
    \/ \E k \in SweepKeys : map_insert_entry(k, 2 * k, "none")
    \/ \E k \in SweepKeys : map_delete_entry(k)
    \/ \E sorted \in BOOLEAN, f \in {"none", "slice"} :
          map_keys(sorted, f)
    \/ \E stop \in 0..MaxStop : map_process_entries(stop)
    \/ map_len

SpecSweep == Init /\ [][NextSweep]_vars

\* Maps made with any size up to MaxSize, a few keys inserted and deleted,
\* and freed.
NextSized ==
    \/ \E size \in 0..MaxSize, f \in {"none", "map", "table"} :
          new_map(size, 0, f)
    \/ \E k \in SizedKeys : map_insert_entry(k, 2 * k, "none")
    \/ \E k \in SizedKeys : map_delete_entry(k)
    \/ map_free

SpecSized == Init /\ [][NextSized]_vars

\* A map whose same_f is not NULL: the keys MapKeys inserted and deleted in
\* any order, no allocation failing, and the calls of get_entry.
NextSame ==
    \/ \E size \in 0..1 : new_map(size, 0, "none")
    \/ \E k \in MapKeys, d \in MapData : map_insert_entry(k, d, "none")
    \/ \E k \in MapKeys : map_delete_entry(k)
    \/ \E k \in MapKeys \cup {0} : map_get_entry(k)

SpecSame == Init /\ [][NextSame]_vars

\* Resizes: a map made without a table or with the smallest one, with a
\* threshold of collisions below and above MIN_COLLISIONS, and the keys
\* CollideKeys inserted and deleted in any order, no allocation failing.
ResizeCollisions == {MIN_COLLISIONS - 1, MIN_COLLISIONS + 1}

NextResize ==
    \/ \E size \in {0, MIN_SIZE}, c \in ResizeCollisions :
          new_map(size, c, "none")
    \/ \E k \in CollideKeys : map_insert_entry(k, 2 * k, "none")
    \/ \E k \in CollideKeys : map_delete_entry(k)
    \/ map_free

SpecResize == Init /\ [][NextResize]_vars

\* A queue and the calls on it, with the nodes QueueNodes and NULL.
NextQueue ==
    \/ \E f \in {"none", "queue"} : new_queue(f)
    \/ \E n \in QueueNodes \cup {0}, f \in {"none", "entry"} :
          queue_head_insert(n, f)
    \/ \E n \in QueueNodes \cup {0}, f \in {"none", "entry"} :
          queue_tail_append(n, f)
    \/ queue_length
    \/ queue_head_peek
    \/ queue_tail_peek
    \/ queue_head_extract
    \/ queue_tail_extract
    \/ \E stop \in 0..MaxStop : queue_process_nodes(stop)
    \/ \E free_nodes \in BOOLEAN : queue_free(free_nodes)

SpecQueue == Init /\ [][NextQueue]_vars

\* The slices given to the fifo: of no item, one and two.
FifoData == {[i \in 1..n |-> 1 + ((n - i) % 2)] : n \in 0..MaxFifoSlice}

\* The caller makes a slice when it holds none but those it gave to the
\* fifo.
OneOutside == \A s \in SliceIds : slices[s].live => InFifo(s)

\* A fifo and the calls on it: single nodes, slices of up to MaxFifoSlice
\* nodes made by new_slice_from_data (one of them of no item and no block)
\* and slices of no item made by new_slice, with a block of one item; a
\* slice of items of 4 bytes is refused, and the caller frees the slices
\* it did not give to the fifo.
NextFifo ==
    \/ \E f \in {"none", "fifo"} : new_fifo(f)
    \/ \E d \in FifoData : OneOutside /\ new_slice_from_data(d, 8, "none")
    \/ \E z \in {4, 8} : OneOutside /\ new_slice(z, 1, "none")
    \/ \E s \in SliceIds : ~InFifo(s) /\ slice_free(s)
    \/ \E n \in Values \cup {0}, f \in {"none", "entry"} : fifo_insert(n, f)
    \/ \E s \in SliceIds, f \in {"none", "entry"} : fifo_insert_slice(s, f)
    \/ fifo_extract
    \/ \E free_nodes \in BOOLEAN : fifo_free(free_nodes)

SpecFifo == Init /\ [][NextFifo]_vars





\* ---- the properties -----------------------------------------------------

\* The values slice sl reads in vs, index 0 first.
Window(vs, sl) == [i \in 1..sl.len |-> vs[sl.vector].data[sl.start + i]]

Allocated(s) ==
    slices[s].live /\ vectors[slices[s].vector].state = "live"

Full(s) == slices[s].len = _slice_cap(vectors, slices[s])

\* C1: every live slice lies within the vector it references, after any
\* sequence of calls: start + len <= capacity, that is slice_len <=
\* slice_cap.
C1_LenWithinCap ==
    \A s \in SliceIds :
       Allocated(s) =>
          /\ slices[s].start + slices[s].len
                <= vectors[slices[s].vector].number
          /\ _slice_len(slices[s]) <= _slice_cap(vectors, slices[s])

\* Two slices share a vector that one of them fills to its end, after a
\* growth.
C1_Witness ==
    \E s, t \in SliceIds :
       /\ s # t /\ Allocated(s) /\ Allocated(t)
       /\ slices[s].vector = slices[t].vector
       /\ slices[s].start > 0 /\ slices[s].len > 0
       /\ vectors[slices[s].vector].number = ARRAY_MINIMUM_ALLOCATION_NUMBER
       /\ last.op = "slice_append_item" /\ last.ret = "0"

\* What a growth that forks slice s away leaves behind (C2).
ForkFrame(s) ==
    LET v == slices[s].vector
        w == slices'[s].vector
    IN  /\ \A t \in SliceIds \ {s} :
              /\ slices'[t] = slices[t]
              /\ Allocated(t) =>
                    Window(vectors', slices'[t]) = Window(vectors, slices[t])
        /\ vectors'[v].state = "live"
        /\ vectors'[v].number = vectors[v].number
        /\ vectors'[v].data = vectors[v].data
        /\ vectors'[v].ref_count = vectors[v].ref_count - 1
        /\ w # v /\ vectors[w].state = "none"
        /\ vectors'[w].state = "live" /\ vectors'[w].ref_count = 1

\* C2: an append or an insert that succeeds on a full slice whose vector
\* has ref_count > 1 leaves every other slice its vector, start, len and
\* values, leaves the old vector its capacity and contents with ref_count
\* one less, and puts the calling slice on a new vector of ref_count 1.
C2_ForkLeavesSharers ==
    [][\A s \in SliceIds, d \in Values :
          /\ last'.ret = "0"
          /\ Allocated(s) /\ Full(s)
          /\ vectors[slices[s].vector].ref_count > 1
          /\ \/ slice_append_item(s, d, "none")
             \/ \E i \in 0..MaxEnd : slice_insert_item_at(s, i, d, "none")
          => ForkFrame(s)]_vars

\* An insert has forked a slice away from a sharer that holds items.
C2_Witness ==
    /\ last.op = "slice_insert_item_at" /\ last.ret = "0"
    /\ last.grow = "fork"
    /\ \E s, t \in SliceIds :
          /\ Allocated(s) /\ Allocated(t)
          /\ slices[s].vector # slices[t].vector
          /\ slices[t].len > 0
          /\ vectors[slices[s].vector].number = ARRAY_MINIMUM_ALLOCATION_NUMBER
          /\ vectors[slices[t].vector].number < ARRAY_MINIMUM_ALLOCATION_NUMBER

\* C3: after an append that forks (full slice, ref_count > 1, allocations
\* succeeding) the slice keeps its start, reads at every index below its
\* previous length the value it read before, and reads the appended value
\* at its previous length.
C3_ForkKeepsItems ==
    [][\A s \in SliceIds, d \in Values :
          /\ last'.op = "slice_append_item" /\ last'.ret = "0"
          /\ Allocated(s) /\ Full(s)
          /\ vectors[slices[s].vector].ref_count > 1
          /\ slice_append_item(s, d, "none")
          => /\ slices'[s].start = slices[s].start
             /\ slices'[s].len = slices[s].len + 1
             /\ \A i \in 0..(slices[s].len - 1) :
                   _slice_item_at(vectors', slices'[s], i)
                      = _slice_item_at(vectors, slices[s], i)
             /\ _slice_item_at(vectors', slices'[s], slices[s].len) = d]_vars

\* An append has forked a slice whose first item its sharer still reads and
\* the slice itself no longer holds.
C3_Witness ==
    /\ last = Call("slice_append_item", "0", "fork")
    /\ \E s, t \in SliceIds :
          /\ Allocated(s) /\ Allocated(t)
          /\ slices[s].vector # slices[t].vector
          /\ slices[s].start = slices[t].start
          /\ slices[s].len > 1 /\ slices[t].len > 0
          /\ _slice_item_at(vectors, slices[s], 0) = Undef
          /\ _slice_item_at(vectors, slices[t], 0) # Undef

\* C4: an allocation that fails in the growth of an append makes the append
\* return -1 and leaves every vector (data, capacity, ref_count) and every
\* slice (vector, start, len) as before the call.
C4_GrowFailureLeavesAll ==
    [][\A s \in SliceIds, d \in Values, f \in {"data", "vector"} :
          /\ last'.op = "slice_append_item"
          /\ Allocated(s) /\ Full(s)
          /\ slice_append_item(s, d, f)
          => /\ last'.ret = "-1"
             /\ vectors' = vectors
             /\ slices' = slices]_vars

\* An append has failed and left a vector with fewer references counted
\* than slices hold.
C4_Witness ==
    /\ last = Call("slice_append_item", "-1", "fail")
    /\ \E v \in VectorIds :
          /\ vectors[v].state = "live"
          /\ vectors[v].ref_count
                < Cardinality({s \in SliceIds :
                                  slices[s].live /\ slices[s].vector = v})

\* C5: while two slices reference the same vector, an item written through
\* one of them is read back through the other at the index of the same
\* cell: written through a parent at i, it is read through the sub-slice
\* made at s at i - s, and the other way round.
C5_WritesAlias ==
    [][\A s \in SliceIds, i \in 0..MaxEnd, d \in Values :
          /\ last'.op = "slice_write_item_at" /\ last'.ret = "0"
          /\ Allocated(s)
          /\ slice_write_item_at(s, i, d)
          => \A t \in SliceIds, j \in 0..MaxEnd :
                /\ Allocated(t) /\ slices[t].vector = slices[s].vector
                /\ j < slices[t].len
                /\ slices[t].start + j = slices[s].start + i
                => _slice_item_at(vectors', slices'[t], j) = d]_vars

\* An item was written through one of two slices that share a vector, the
\* second a sub-slice that starts inside the first.
C5_Witness ==
    /\ last = Call("slice_write_item_at", "0", "none")
    /\ \E s, t \in SliceIds :
          /\ Allocated(s) /\ Allocated(t)
          /\ slices[s].vector = slices[t].vector
          /\ slices[s].start < slices[t].start
          /\ slices[t].len > 0
          /\ slices[t].start < slices[s].start + slices[s].len
          /\ _slice_item_at(vectors, slices[t], 0) # Undef

\* The calls of NextForked made through slice s.
CalledThrough(s) ==
    \/ /\ last'.op = "slice_write_item_at"
       /\ \E i \in 0..MaxEnd, d \in Values : slice_write_item_at(s, i, d)
    \/ /\ last'.op = "slice_append_item"
       /\ \E d \in Values, f \in AllocArgs : slice_append_item(s, d, f)
    \/ /\ last'.op = "slice_insert_item_at"
       /\ \E i \in 0..MaxEnd, d \in Values, f \in AllocArgs :
             slice_insert_item_at(s, i, d, f)
    \/ /\ last'.op = "slice_remove_item_at"
       /\ \E i \in 0..MaxEnd : slice_remove_item_at(s, i)
    \/ /\ last'.op = "slice_swap_items"
       /\ \E i, j \in 0..MaxEnd : slice_swap_items(s, i, j)
    \/ /\ last'.op = "slice_update_len"
       /\ \E n \in 0..MaxEnd : slice_update_len(s, n)

\* C6: after a growth has forked slice 2 away from slice 1, no call made
\* through one of them (write, append, insert, remove, swap) changes a value
\* read through the other.
C6_ForkedApart ==
    [][\A s, t \in SliceIds :
          /\ s # t
          /\ Window(vectors', slices'[t]) # Window(vectors, slices[t])
          => ~CalledThrough(s)]_vars

\* An item was written through one of the two slices after the fork, and
\* both hold items.
C6_Witness ==
    /\ last = Call("slice_write_item_at", "0", "none")
    /\ Allocated(1) /\ Allocated(2)
    /\ slices[1].vector # slices[2].vector
    /\ slices[1].len > 0 /\ slices[2].len > 1
    /\ Window(vectors, slices[1]) # Window(vectors, slices[2])

\* The live slices that reference vector v.
Referencing(sls, v) == {s \in SliceIds : sls[s].live /\ sls[s].vector = v}

\* The count of every vector is the number of slices that hold it, and no
\* slice holds a freed vector.
CountsMatch(sls, vs) ==
    /\ \A v \in VectorIds :
          vs[v].state = "live" =>
             /\ vs[v].ref_count = Cardinality(Referencing(sls, v))
             /\ vs[v].ref_count >= 1
    /\ \A s \in SliceIds : sls[s].live => vs[sls[s].vector].state = "live"

\* C7: while no allocation has failed, the ref_count of every live vector
\* is the number of live slices that reference it, at least 1; no live
\* slice references a freed vector; and a vector is freed by the slice_free
\* of the last slice that references it, and by nothing else.
C7_CountsSlices ==
    [][alloc_failures' = 0 =>
          /\ CountsMatch(slices', vectors')
          /\ \A v \in VectorIds :
                vectors[v].state = "live" /\ vectors'[v].state = "none"
                => /\ last'.op = "slice_free"
                   /\ Cardinality(Referencing(slices, v)) = 1
                   /\ Referencing(slices', v) = {}
          /\ \A s \in SliceIds :
                last'.op = "slice_free" /\ slice_free(s)
                => (vectors'[slices[s].vector].state = "none"
                      <=> Referencing(slices, slices[s].vector) = {s})]_vars

\* Of two slices made by slice_dup the first was freed first, and the
\* second still holds the vector.
C7_Witness ==
    /\ last.op = "slice_free" /\ alloc_failures = 0
    /\ ~slices[1].live /\ Allocated(2)
    /\ vectors[slices[2].vector].ref_count = 1
    /\ slices[2].len > 0

\* C8: an append that succeeds on a slice whose vector has ref_count 1
\* leaves the slice on the same vector with every item it held and the
\* appended one after them; when the slice was full the capacity of the
\* vector is strictly larger afterwards.  So a slice of capacity 2 appended
\* to three times holds the three values in order in a capacity of at
\* least 3.
C8_GrowInPlace ==
    [][\A s \in SliceIds, d \in Values :
          /\ last'.op = "slice_append_item" /\ last'.ret = "0"
          /\ Allocated(s)
          /\ vectors[slices[s].vector].ref_count = 1
          /\ slice_append_item(s, d, "none")
          => /\ slices'[s].vector = slices[s].vector
             /\ Window(vectors', slices'[s])
                   = Append(Window(vectors, slices[s]), d)
             /\ Full(s) => vectors'[slices[s].vector].number
                              > vectors[slices[s].vector].number
             /\ vectors'[slices[s].vector].number >= slices'[s].len]_vars

\* The third append to a slice of capacity 2: the vector was resized in
\* place and holds three written items.
C8_Witness ==
    /\ last = Call("slice_append_item", "0", "realloc")
    /\ \E s \in SliceIds :
          /\ Allocated(s)
          /\ slices[s].start = 0 /\ slices[s].len = 3
          /\ vectors[slices[s].vector].number >= 3
          /\ \A i \in 0..2 : _slice_item_at(vectors, slices[s], i) # Undef

\* C9: an append changes the capacity or the identity of the slice's vector
\* only if the slice was full, and does so when it was full and the
\* allocations succeed; on a slice that was not full it returns 0, writes
\* the item at start + len of the same vector and changes only len, by +1.
C9_GrowsOnlyWhenFull ==
    [][\A s \in SliceIds, d \in Values, f \in AllocArgs :
          /\ last'.op = "slice_append_item"
          /\ Allocated(s)
          /\ slice_append_item(s, d, f)
          => LET sl == slices[s]
                 v == sl.vector
                 changed == \/ slices'[s].vector # v
                            \/ vectors'[v].number # vectors[v].number
             IN  /\ changed => Full(s)
                 /\ Full(s) /\ f = "none" => changed
                 /\ ~Full(s) =>
                       /\ last'.ret = "0"
                       /\ slices' = [slices EXCEPT ![s].len = sl.len + 1]
                       /\ vectors' = [vectors EXCEPT
                             ![v].data[sl.start + sl.len + 1] = d]]_vars

\* An append found room in a vector that two slices share.
C9_Witness ==
    /\ last = Call("slice_append_item", "0", "none")
    /\ \E s, t \in SliceIds :
          /\ s # t /\ Allocated(s) /\ Allocated(t)
          /\ slices[s].vector = slices[t].vector
          /\ slices[s].len > 0

\* What a rejected call does: it returns its failure value and leaves
\* every slice and every vector as it was.
Kept ==
    /\ last'.ret \in {"NULL", "-1"}
    /\ last'.ret = "NULL" <=>
          last'.op \in {"slice_item_at", "new_slice_from_slice"}
    /\ UNCHANGED <<slices, vectors>>

\* C10: a call with an out-of-range argument (an index >= len for item_at,
\* write, remove and swap, an index > len for insert, a len > capacity for
\* update_len, start > beyond or beyond > len for new_slice_from_slice)
\* returns its failure value and leaves every slice and every vector as
\* it was: in no reachable state can such a call do anything else.
C10_RejectsOutOfRange ==
    \A s \in SliceIds :
       slices[s].live =>
          /\ \A i \in 0..MaxEnd :
                i >= slices[s].len =>
                   /\ ~ENABLED (slice_item_at(s, i) /\ ~Kept)
                   /\ ~ENABLED (slice_remove_item_at(s, i) /\ ~Kept)
                   /\ \A d \in Values :
                         ~ENABLED (slice_write_item_at(s, i, d) /\ ~Kept)
                   /\ \A j \in 0..MaxEnd :
                         /\ ~ENABLED (slice_swap_items(s, i, j) /\ ~Kept)
                         /\ ~ENABLED (slice_swap_items(s, j, i) /\ ~Kept)
          /\ \A i \in 0..MaxEnd, d \in Values, f \in AllocArgs :
                i > slices[s].len =>
                   ~ENABLED (slice_insert_item_at(s, i, d, f) /\ ~Kept)
          /\ \A n \in 0..MaxEnd :
                Allocated(s) /\ n > _slice_cap(vectors, slices[s]) =>
                   ~ENABLED (slice_update_len(s, n) /\ ~Kept)
          /\ \A i, j \in 0..MaxEnd, f \in {"none", "slice"} :
                i > j \/ j > slices[s].len =>
                   ~ENABLED (new_slice_from_slice(s, i, j, f) /\ ~Kept)

\* An insert beyond the length was rejected on a slice that holds items in
\* a vector it shares.
C10_Witness ==
    /\ last = Call("slice_insert_item_at", "-1", "none")
    /\ \E s, t \in SliceIds :
          /\ s # t /\ Allocated(s) /\ Allocated(t)
          /\ slices[s].vector = slices[t].vector
          /\ slices[s].len > 0

\* The block after a byte-by-byte exchange of items index1 and index2 of the
\* slice of m.
ByteByByte(m, index1, index2) ==
    LET size == m.item_size
        first1 == (m.start + index1) * size
        first2 == (m.start + index2) * size
    IN  [p \in DOMAIN m.bytes |->
           IF first1 < p /\ p <= first1 + size THEN m.bytes[p - first1 + first2]
           ELSE IF first2 < p /\ p <= first2 + size
                THEN m.bytes[p - first2 + first1]
                ELSE m.bytes[p]]

\* C11: for every item size and every two distinct indexes below len,
\* slice_swap_items exchanges the bytes of the two items and leaves every
\* other byte of the vector as it was: the block afterwards is the block a
\* byte-by-byte exchange of the two items gives, and no byte beyond the
\* block is touched.
C11_SwapsBytes ==
    [][\A i, j \in 0..MaxSwapNumber :
          /\ last'.ret = "0"
          /\ i # j /\ i < mem.len /\ j < mem.len
          /\ slice_swap_bytes(i, j)
          => /\ ~ub'
             /\ mem'.bytes = ByteByByte(mem, i, j)]_vars

\* One swap of two items of 2 bytes has left a byte of the block twice in
\* it, and so has lost another.
C11_Witness ==
    /\ last = Call("slice_swap_items", "0", "none")
    /\ mem.item_size = 2 /\ mem.swaps = 1 /\ ~ub
    /\ \E p, q \in DOMAIN mem.bytes : p # q /\ mem.bytes[p] = mem.bytes[q]

\* The slice sl of vs holds a heap: every item was written and each
\* dominates its children, as heap_check verifies from the root and as the
\* comparison of every item with its parent states.
Written(vs, sl) ==
    \A i \in 0..(_slice_len(sl) - 1) :
       _pointer_slice_item_at(vs, sl, i) # Undef

HeapOrdered(vs, sl) ==
    \A i \in 1..(_slice_len(sl) - 1) :
       cmp(_pointer_slice_item_at(vs, sl, (i - 1) \div 2),
           _pointer_slice_item_at(vs, sl, i)) >= 0

IsHeap(vs, sl) ==
    Written(vs, sl) /\ heap_check(vs, sl) /\ HeapOrdered(vs, sl)

\* The direction given to heap_update_at agrees with the change of the item.
Agrees(item, data, inc) ==
    LET old == _pointer_slice_item_at(vectors, HeapSlice, item)
    IN  IF inc THEN cmp(data, old) >= 0 ELSE cmp(data, old) <= 0

\* The step is a call that changes the heap: any of them but heap_update_at
\* in a direction that disagrees with the change.
HeapCall ==
    \/ last'.op \in {"heap_insert", "heap_extract", "heap_replace_at",
                     "heap_insert_then_extract", "heap_extract_then_insert"}
    \/ /\ last'.op = "heap_update_at"
       /\ \E i \in 0..MaxHeapLen, d \in HeapInputs, inc \in BOOLEAN :
             /\ i < _slice_len(HeapSlice) => Agrees(i, d, inc)
             /\ heap_update_at(i, d, inc)

\* C12: a call of heap_insert, heap_extract, heap_replace_at, heap_update_at
\* (in the direction of the change), heap_insert_then_extract or
\* heap_extract_then_insert on a heap for which heap_check returns true
\* leaves a heap for which heap_check returns true, that is, in which every
\* item at an index i > 0 is dominated by the item at parent(i); so
\* heap_check returns true after any sequence of these calls.
C12_HeapInvariant ==
    [][/\ heap.live /\ heap'.live /\ ~ub
       /\ Allocated(heap.slice) /\ IsHeap(vectors, HeapSlice)
       /\ HeapCall
       => /\ ~ub'
          /\ IsHeap(vectors', slices'[heap.slice])]_vars

\* heap_insert has moved the heap to a new vector and handed cmp an item of
\* it that was never written.
C12_Witness ==
    /\ last = Call("heap_insert", "true", "fork")
    /\ ub /\ heap.live
    /\ _slice_len(HeapSlice) > 1
    /\ ~Written(vectors, HeapSlice)

\* How many items of the sequence items are the value v.
Count(items, v) == Cardinality({i \in DOMAIN items : items[i] = v})

\* The heap of the model holds a heap.
ValidHeap ==
    /\ heap.live /\ ~ub /\ Allocated(heap.slice)
    /\ IsHeap(vectors, HeapSlice)

\* C13: on a heap that is valid and not empty heap_extract returns the item
\* heap_peek returns, which dominates every item stored, and removes one
\* occurrence of it: the length is one less and every other item is stored
\* as many times as before.  On an empty heap heap_extract and heap_peek
\* return NULL and change nothing.
C13_ExtractsRoot ==
    [][/\ last'.op \in {"heap_extract", "heap_peek"}
       /\ ValidHeap
       => LET before == Window(vectors, HeapSlice)
              after == Window(vectors', slices'[heap.slice])
          IN  IF before = <<>>
              THEN /\ last'.ret = "NULL" /\ returned' = 0
                   /\ UNCHANGED <<slices, vectors, heap, ub>>
              ELSE /\ last'.ret = "ptr"
                   /\ returned' = before[1]
                   /\ \A i \in DOMAIN before : cmp(returned', before[i]) >= 0
                   /\ heap' = heap /\ ~ub'
                   /\ IF last'.op = "heap_peek"
                      THEN UNCHANGED <<slices, vectors>>
                      ELSE /\ Len(after) = Len(before) - 1
                           /\ \A v \in HeapInputs :
                                 Count(after, v)
                                    = Count(before, v)
                                         - (IF v = returned' THEN 1 ELSE 0)]_vars

\* heap_extract has returned an item of which the heap holds another
\* occurrence, with a smaller item.
C13_Witness ==
    /\ last = Call("heap_extract", "ptr", "none")
    /\ ValidHeap
    /\ \E i, j \in 0..(_slice_len(HeapSlice) - 1) :
          /\ _pointer_slice_item_at(vectors, HeapSlice, i) = returned
          /\ _pointer_slice_item_at(vectors, HeapSlice, j) < returned

\* The sequence items is in non-increasing order of cmp.
NonIncreasing(items) ==
    \A i \in 1..(Len(items) - 1) : cmp(items[i], items[i + 1]) >= 0

\* The sequences a and b hold the same items as many times.
SameItems(a, b) == \A v \in HeapValues : Count(a, v) = Count(b, v)

\* C14: for any array of n pointers, duplicates and n = 0, 1, 2 included,
\* new_heap_from_data and new_heap_from_slice give a heap for which
\* heap_check returns true, and the n calls of heap_extract that follow
\* return the items of the array in non-increasing order of cmp: the items
\* extracted so far are in that order, dominate the items still in the
\* heap, and are with them the items of the array; <<5, 1, 9, 3, 7>> gives
\* 9, 7, 5, 3, 1.
C14_HeapSort ==
    heap.live =>
       LET stored == Window(vectors, HeapSlice)
       IN  /\ ~ub
           /\ IsHeap(vectors, HeapSlice)
           /\ Len(stored) + Len(log.out) = Len(log.data)
           /\ SameItems(log.out \o stored, log.data)
           /\ NonIncreasing(log.out)
           /\ \A i \in DOMAIN log.out, j \in DOMAIN stored :
                 cmp(log.out[i], stored[j]) >= 0
           /\ log.data = <<5, 1, 9, 3, 7>> /\ stored = <<>>
                 => log.out = <<9, 7, 5, 3, 1>>

\* The heap made from 5, 1, 9, 3, 7 is empty after five calls of
\* heap_extract.
C14_Witness ==
    /\ heap.live /\ last = Call("heap_extract", "ptr", "none")
    /\ log.data = <<5, 1, 9, 3, 7>>
    /\ Len(log.out) = 5
    /\ _slice_len(HeapSlice) = 0

\* The sequence after holds the items of before and one more v.
Plus(before, after, v) ==
    \A w \in HeapInputs :
       Count(after, w) = Count(before, w) + (IF w = v THEN 1 ELSE 0)

\* C15: heap_insert_then_extract( v ) on a valid heap does what heap_insert
\* ( v ) followed by heap_extract does: it returns an item that dominates v
\* and every item stored, the items stored afterwards are the items stored
\* before and v less the item returned, the length is the same and the
\* heap is valid; on an empty heap it returns v and leaves the heap empty.
C15_InsertThenExtract ==
    [][\A d \in HeapInputs :
          /\ last'.op = "heap_insert_then_extract"
          /\ ValidHeap
          /\ heap_insert_then_extract(d)
          => LET before == Window(vectors, HeapSlice)
                 after == Window(vectors', slices'[heap.slice])
             IN  /\ last'.ret = "ptr" /\ ~ub' /\ heap' = heap
                 /\ returned' \in HeapInputs
                 /\ cmp(returned', d) >= 0
                 /\ \A i \in DOMAIN before : cmp(returned', before[i]) >= 0
                 /\ Len(after) = Len(before)
                 /\ Plus(after, Append(before, d), returned')
                 /\ IsHeap(vectors', slices'[heap.slice])
                 /\ before = <<>> => returned' = d /\ after = <<>>]_vars

\* heap_insert_then_extract has returned the root of a heap of three items
\* or more and stored a smaller item in its place.
C15_Witness ==
    /\ last = Call("heap_insert_then_extract", "ptr", "none")
    /\ ValidHeap
    /\ _slice_len(HeapSlice) >= 3
    /\ \A i \in 0..(_slice_len(HeapSlice) - 1) :
          _pointer_slice_item_at(vectors, HeapSlice, i) < returned
    /\ _pointer_slice_item_at(vectors, HeapSlice, 0)
          > _pointer_slice_item_at(vectors, HeapSlice, 2)

\* C16: heap_extract_then_insert( v ) on a valid heap does what
\* heap_extract followed by heap_insert( v ) does: on a heap that is not
\* empty it returns the root, the items stored afterwards are the items
\* stored before less the root and v, the length is the same and the heap
\* is valid; on an empty heap it returns NULL and the heap then holds v and
\* nothing else.
C16_ExtractThenInsert ==
    [][\A d \in HeapInputs, f \in AllocArgs :
          /\ last'.op = "heap_extract_then_insert"
          /\ ValidHeap
          /\ heap_extract_then_insert(d, f)
          => LET before == Window(vectors, HeapSlice)
                 after == Window(vectors', slices'[heap.slice])
             IN  /\ ~ub' /\ heap' = heap
                 /\ IsHeap(vectors', slices'[heap.slice])
                 /\ IF before = <<>>
                    THEN /\ last'.ret = "NULL" /\ returned' = 0
                         /\ after = <<d>>
                    ELSE /\ last'.ret = "ptr"
                         /\ returned' = before[1]
                         /\ Len(after) = Len(before)
                         /\ Plus(after, Append(before, d), returned')]_vars

\* heap_extract_then_insert has returned NULL on an empty heap whose block
\* could not be allocated, and the heap is still empty.
C16_Witness ==
    /\ last.op = "heap_extract_then_insert" /\ last.ret = "NULL"
    /\ alloc_failures > 0
    /\ ValidHeap
    /\ _slice_len(HeapSlice) = 0

\* C16 for the calls in which no allocation fails.
C16_WhenAllocated ==
    [][\A d \in HeapInputs :
          /\ last'.op = "heap_extract_then_insert"
          /\ ValidHeap
          /\ heap_extract_then_insert(d, "none")
          => LET before == Window(vectors, HeapSlice)
                 after == Window(vectors', slices'[heap.slice])
             IN  /\ ~ub' /\ heap' = heap
                 /\ IsHeap(vectors', slices'[heap.slice])
                 /\ IF before = <<>>
                    THEN /\ last'.ret = "NULL" /\ returned' = 0
                         /\ after = <<d>>
                    ELSE /\ last'.ret = "ptr"
                         /\ returned' = before[1]
                         /\ Len(after) = Len(before)
                         /\ Plus(after, Append(before, d), returned')]_vars

\* The keys the caller holds in the map, and how many times key k is stored
\* in table.
Live == {k \in DOMAIN inserted : inserted[k] # 0}

Stored(table, k) ==
    UNION {{<<i, j>> : j \in {n \in DOMAIN Chain(table[i]) :
                                Chain(table[i])[n].key = k}} :
             i \in DOMAIN table}

\* C17: after any sequence of map_insert_entry and map_delete_entry,
\* map_lookup_entry( k ) returns the data of the last successful insert of
\* k if k was not deleted since, and NULL otherwise; so a key that was not
\* deleted keeps its data whatever other keys are deleted or inserted and
\* whatever resizes happen.
C17_LookupReturnsInserted ==
    map.live =>
       \A k \in MapKeys : _map_lookup_entry(map, k) = inserted[k]

\* A key was inserted behind another at the same index, that other key was
\* deleted and inserted again, and the first key is no longer found.
C17_Witness ==
    /\ map.live /\ alloc_failures = 0
    /\ last = Call("map_insert_entry", "true", "none")
    /\ map.allocated = get_prime(MIN_SIZE).prime
    /\ \E k \in Live :
          /\ _map_lookup_entry(map, k) = 0
          /\ Stored(map.table, k) = {}

\* C17, the part that holds: map_delete_entry( k1 ) leaves map_lookup_entry
\* ( k2 ) as it was for every other key k2.
DeleteKeepsOthers ==
    [][\A k1 \in MapKeys :
          /\ last'.op = "map_delete_entry"
          /\ map_delete_entry(k1)
          => \A k2 \in MapKeys \ {k1} :
                _map_lookup_entry(map', k2) = _map_lookup_entry(map, k2)]_vars

\* C18: in every state map_insert_entry and map_delete_entry reach,
\* map_len is the number of keys inserted with success and not deleted
\* since, resizes included.
C18_LenCountsInserted ==
    map.live => map.nb = Cardinality(Live)

\* map_len has returned less than the number of keys inserted and not
\* deleted, after a resize.
C18_Witness ==
    /\ map.live /\ alloc_failures = 0
    /\ last.op = "map_len"
    /\ map.allocated > get_prime(MIN_SIZE).prime
    /\ returned < Cardinality(Live)

C20_FillKeepsEntries ==
    map.live =>
       /\ \A k \in FillKeys :
             /\ inserted[k] = 0 =>
                   ~ENABLED (/\ map_insert_entry(k, 2 * k, "none")
                             /\ ~(last'.ret = "true" /\ inserted'[k] = 2 * k))
             /\ _map_lookup_entry(map, k) = inserted[k]
             /\ Cardinality(Stored(map.table, k))
                   = IF inserted[k] # 0 THEN 1 ELSE 0
       /\ map.nb = Cardinality(Live)

\* The ten keys are in the map, whose table has doubled twice.
C20_Witness ==
    /\ map.live
    /\ Live = FillKeys
    /\ map.nb = Cardinality(FillKeys)
    /\ map.n2power = MaxN2power
    /\ \A k \in FillKeys : _map_lookup_entry(map, k) = 2 * k

\* The entries of table that hold a key, each with the index it is at.
Occupied(table) ==
    UNION {{[index |-> i - 1, entry |-> Chain(table[i])[j]] :
               j \in {n \in DOMAIN Chain(table[i]) :
                         Chain(table[i])[n].key # 0}} :
             i \in DOMAIN table}

\* C21: in every state of the map, every entry that holds a key, in the
\* table or in the list behind an entry of the table, is at the index its
\* stored hash gives modulo map->allocated, and its stored hash is the hash
\* of its key (the key itself, hash_f being NULL); inserts, deletes and
\* resizes keep it so.
C21_EntriesAtTheirIndex ==
    map.live =>
       \A e \in Occupied(map.table) :
          /\ e.entry.hash = hash_data(e.entry.key)
          /\ e.index = e.entry.hash % map.allocated

\* A resize has moved entries that shared an index of the first table to
\* different indexes of the second.
C21_Witness ==
    /\ map.live
    /\ last = Call("map_insert_entry", "true", "none")
    /\ map.allocated > get_prime(MIN_SIZE).prime
    /\ \E e, f \in Occupied(map.table) :
          /\ e.index # f.index
          /\ e.entry.key % get_prime(MIN_SIZE).prime
                = f.entry.key % get_prime(MIN_SIZE).prime

\* C22: map_delete_entry of the entry in the table itself, with entries in
\* the list behind it, moves the first of them into the table; so in every
\* state an entry of the table without a key has no list behind it.
C22_EmptyHeadHasNoList ==
    map.live =>
       \A i \in DOMAIN map.table :
          map.table[i].key = 0 => map.table[i].next = <<>>

\* The entry of the table was deleted and the entry behind it is still
\* behind it, the only way to a key the map holds.
C22_Witness ==
    /\ map.live
    /\ last = Call("map_delete_entry", "true", "none")
    /\ \E i \in DOMAIN map.table :
          /\ map.table[i].key = 0
          /\ map.table[i].next # <<>>
          /\ inserted[map.table[i].next[1].key] # 0

\* The number of entries of the longest list of table, the entry in the
\* table included.
LongestList(table) ==
    LET lengths == {0} \cup {Len(Chain(table[i])) :
                               i \in {n \in DOMAIN table : table[n].key # 0}}
    IN  CHOOSE l \in lengths : \A m \in lengths : m <= l

\* The map as rehash leaves it when make_room calls it on map m.
Rehashed(m) ==
    LET p == get_prime(2 * m.n2power)
    IN  rehash(m, [i \in 1..p.prime |-> NoEntry], p.prime, p.n2power,
               FALSE).map

\* C23: right after a resize of the map, max_collision is the number of
\* entries of the longest list of the new table minus one, and 0 when the
\* new table holds no list longer than one entry or no entry at all; no
\* unsigned subtraction wraps around.
C23_MaxCollisionAfterRehash ==
    [][/\ last'.op = "map_insert_entry"
       /\ map.table # <<>>
       /\ map'.allocated # map.allocated
       => LET longest == LongestList(Rehashed(map).table)
          IN  Rehashed(map).max_collision
                 = IF longest = 0 THEN 0 ELSE longest - 1]_vars

\* An insert has resized a table from which every key had been deleted,
\* and max_collision is UINT32_MAX.
C23_Witness ==
    /\ map.live
    /\ last = Call("map_insert_entry", "true", "none")
    /\ map.nb = 1 /\ Cardinality(Live) = 1
    /\ map.allocated > get_prime(2 * MIN_SIZE).prime
    /\ map.max_collision = UINT32_MAX

\* C24: when an allocation fails in the resize of map_insert_entry, that
\* of the new table or that of an entry of a list of the new table, the
\* insert returns false and the map is as it was before the call: the same
\* table, allocated, n2power, nb and max_collision, hence the same data for
\* every key.
C24_FailedResizeKeepsMap ==
    map.live =>
       \A k \in CollideKeys, f \in {"table", "entry"} :
          get_entry(map, k) = 0 /\ make_room(map, f).failed =>
             ~ENABLED (/\ map_insert_entry(k, 2 * k, f)
                       /\ ~(/\ last'.ret = "false"
                            /\ UNCHANGED <<map, inserted>>))

\* An insert has failed on a table of five entries that the resize puts in
\* one list, whose entries are allocated one by one.
C24_Witness ==
    /\ map.live /\ alloc_failures = 1
    /\ last = Call("map_insert_entry", "false", "none")
    /\ map.nb = 5 /\ Cardinality(Live) = 5
    /\ map.allocated = get_prime(MIN_SIZE).prime
    /\ LongestList(map.table) = 1
    /\ LongestList(Rehashed(map).table) = 5


\* How many items of the sequence keys are k.
Times(keys, k) == Cardinality({n \in DOMAIN keys : keys[n] = k})

\* C25: in every state inserts and deletes reach, map_keys returns a slice
\* of map_len items that holds every key inserted and not deleted since
\* exactly once, in the order of cmp when cmp is given, and
\* map_process_entries with a proc that never stops calls proc exactly once
\* for each of these keys, map_len times in all.
C25_SweepsVisitLive ==
    [][/\ last'.op = "map_keys" /\ last'.ret = "ptr"
          => /\ Len(returned') = map.nb
             /\ \A k \in Live : Times(returned', k) = 1
             /\ map_keys(TRUE, "none")
                   => \A n \in 1..(Len(returned') - 1) :
                         returned'[n] <= returned'[n + 1]
       /\ last'.op = "map_process_entries" /\ last'.ret = "done"
          => /\ Len(returned') = map.nb
             /\ \A k \in Live :
                   Times([n \in DOMAIN returned' |-> returned'[n].key], k)
                      = 1]_vars

\* map_keys has returned an empty slice for a map of one entry, whose key
\* map_lookup_entry finds: the entry is behind an entry of the table that
\* was deleted.
C25_Witness ==
    /\ map.live
    /\ last = Call("map_keys", "ptr", "none")
    /\ map.nb = 1 /\ Cardinality(Live) = 1
    /\ returned = <<>>
    /\ \A k \in Live : _map_lookup_entry(map, k) = 2 * k


\* p is a prime number.
IsPrime(p) == p > 1 /\ \A d \in 2..(p - 1) : p % d # 0

\* C26: new_map with a size above 0 allocates a table of at least size
\* entries, and of at least those of the smallest table; the number of
\* entries, which is the modulus, is the largest prime not above
\* map->n2power, the power of two recorded for the table.
C26_TableForSize ==
    [][\A size \in 1..MaxSize :
          new_map(size, 0, "none")
             => /\ Len(map'.table) = map'.allocated
                /\ map'.allocated >= size
                /\ map'.allocated >= get_prime(MIN_SIZE).prime
                /\ IsPrime(map'.allocated)
                /\ map'.allocated <= map'.n2power
                /\ \A p \in (map'.allocated + 1)..map'.n2power :
                      ~IsPrime(p)]_vars

\* new_map has made a table of the second size, 13 entries for 16, which
\* only a size above the entries of the first table, 7, gives.
C26_Witness ==
    /\ map.live
    /\ last = Call("new_map", "ptr", "none")
    /\ map.nb = 0
    /\ Len(map.table) = get_prime(2 * MIN_SIZE).prime
    /\ map.n2power = 2 * MIN_SIZE


\* The nodes of the queue from entry to the tail.
RECURSIVE NodesFrom(_, _)
NodesFrom(q, entry) ==
    IF entry = 0 THEN <<>>
    ELSE <<q.entries[entry].node>> \o NodesFrom(q, q.entries[entry].next)

\* C27: queue_process_nodes calls fct on the nodes of the queue from head
\* to tail with the indexes 0, 1, 2, ..., on every node if fct never
\* returns true, and on no further node once fct has returned true.
C27_ProcessStopsAtTrue ==
    last.op = "queue_process_nodes" =>
       /\ \A n \in DOMAIN returned :
             /\ returned[n].index = n - 1
             /\ n <= queue.size
             /\ returned[n].node = NodesFrom(queue, queue.head)[n]
             /\ returned[n].ret => n = Len(returned)
       /\ (\A n \in DOMAIN returned : ~returned[n].ret)
             => Len(returned) = queue.size

\* fct has returned true at its first call, on the head of a queue of three
\* nodes, and was called on the two nodes behind it.
C27_Witness ==
    /\ last.op = "queue_process_nodes"
    /\ queue.size = MaxQueueLen
    /\ Len(returned) = MaxQueueLen
    /\ returned[1].ret
    /\ returned[2].node = queue.entries[queue.entries[queue.head].next].node


\* The nodes fifo q holds from entry on, with the slices sls and the
\* vectors vs, in the order fifo_extract is to return them: a node for an
\* entry of one node, the items not yet extracted for a slice.
RECURSIVE Queued(_, _, _, _, _)
Queued(q, sls, vs, entry, start) ==
    IF entry = 0 THEN <<>>
    ELSE (IF q.entries[entry].slice
          THEN LET sl == sls[q.entries[entry].data]
               IN  [i \in 1..(_slice_len(sl) - start) |->
                      _pointer_slice_item_at(vs, sl, start + i - 1)]
          ELSE <<q.entries[entry].data>>)
            \o Queued(q, sls, vs, q.entries[entry].next, 0)

\* C28: whatever fifo_insert, fifo_insert_slice (with slices of any length,
\* 0 too) and fifo_extract are called, fifo_extract returns the nodes given
\* to the fifo in the order they were given, the items of a slice in index
\* order at the place of the slice, each once; it returns NULL only when
\* the fifo is empty; and a slice given to the fifo is freed by the
\* fifo_extract that returns its last item, not before and once.
C28_ExtractInInsertionOrder ==
    [][last'.op = "fifo_extract" =>
          /\ ~ub'
          /\ log'.out \o Queued(fifo', slices', vectors', fifo'.head,
                               fifo'.start) = log'.data
          /\ returned' = 0 => fifo.head = 0
          /\ \A s \in SliceIds :
                /\ InFifo(s) => Valid(s)
                /\ InFifo(s) /\ ~slices'[s].live
                      <=> /\ fifo.head # 0
                          /\ fifo.entries[fifo.head].slice
                          /\ fifo.entries[fifo.head].data = s
                          /\ fifo.start + 1 >= _slice_len(slices[s])]_vars

\* fifo_extract has returned, from a fifo that held a slice of no item and
\* a node behind it, something that was never given to the fifo; the node
\* is still to come.
C28_Witness ==
    /\ fifo.live /\ ~ub
    /\ last.op = "fifo_extract"
    /\ log.data # <<>>
    /\ Len(log.out) = 1
    /\ Queued(fifo, slices, vectors, fifo.head, fifo.start) = log.data


\* The step has made, in the handle malloc returns, a slice of the items i
\* to j - 1 of slice s on the vector of s, and changed nothing else but the
\* ref_count of that vector, one more.
SubSliceMade(s, i, j) ==
    LET new == FreshSlice
        v == slices[s].vector
    IN  /\ last'.ret = "ptr"
        /\ slices'[new] = [live |-> TRUE, vector |-> v,
                           start |-> slices[s].start + i, len |-> j - i]
        /\ \A t \in SliceIds \ {new} : slices'[t] = slices[t]
        /\ vectors'[v].ref_count = vectors[v].ref_count + 1
        /\ vectors' = [vectors EXCEPT ![v].ref_count = vectors'[v].ref_count]
        /\ _slice_cap(vectors', slices'[new])
              = vectors[v].number - (slices[s].start + i)

\* C29: new_slice_from_slice( parent, s, e ) with 0 <= s <= e <= the length
\* of parent returns a slice on the vector of parent, with start the start
\* of parent plus s and length e - s; the ref_count of the vector is one
\* more and parent is as it was; the capacity of the new slice is the
\* number of items of the vector minus its start.  slice_dup( parent )
\* gives what new_slice_from_slice( parent, 0, length of parent ) gives.
C29_SubSliceSharesVector ==
    [][last'.op \in {"new_slice_from_slice", "slice_dup"} =>
          \A s \in SliceIds :
             /\ \A i, j \in 0..MaxEnd :
                   /\ i <= j /\ j <= slices[s].len
                   /\ new_slice_from_slice(s, i, j, "none")
                   => SubSliceMade(s, i, j)
             /\ slice_dup(s, "none")
                   => SubSliceMade(s, 0, slices[s].len)]_vars

\* new_slice_from_slice has made a slice from a parent that does not start
\* at the start of its vector: the two share the vector, the new one
\* starts further than its parent and has room beyond its length.
C29_Witness ==
    /\ ~ub
    /\ last = Call("new_slice_from_slice", "ptr", "none")
    /\ \E s, t \in SliceIds :
          /\ slices[s].live /\ slices[t].live /\ s # t
          /\ slices[s].vector = slices[t].vector
          /\ vectors[slices[s].vector].state = "live"
          /\ vectors[slices[s].vector].ref_count = 2
          /\ slices[s].start > 0
          /\ slices[t].start > slices[s].start
          /\ _slice_cap(vectors, slices[t]) > slices[t].len


\* The items with data put in at index, in index order.
WithItemAt(items, index, data) ==
    [k \in 1..(Len(items) + 1) |->
        IF k <= index THEN items[k]
        ELSE IF k = index + 1 THEN data
        ELSE items[k - 1]]

\* C30: slice_insert_item_at( i, v ) with i <= len returns 0 and makes the
\* slice one item longer: the items before i are as they were, v is at i,
\* and each item that was at k >= i is at k + 1.  With i = len it does what
\* slice_append_item( v ) does, the growth of a full slice included.
C30_InsertShiftsByOne ==
    [][last'.op = "slice_insert_item_at" =>
          \A s \in SliceIds, i \in 0..MaxEnd, d \in Values :
             /\ Allocated(s) /\ i <= slices[s].len
             /\ slice_insert_item_at(s, i, d, "none")
             => /\ last'.ret = "0"
                /\ Window(vectors', slices'[s])
                      = WithItemAt(Window(vectors, slices[s]), i, d)
                /\ i = slices[s].len
                      => \E r \in {_slice_append_item(vectors, slices[s], d,
                                                      FreshVector, "none")} :
                            /\ r.ret = "0"
                            /\ slices'[s] = r.slice
                            /\ vectors' = r.vectors]_vars

\* An insert at index 1 into a full slice of one item that shares its
\* vector has moved the slice to a vector of its own, where the item it
\* held at index 0 is no longer: its sharer still reads it.
C30_Witness ==
    /\ last = Call("slice_insert_item_at", "0", "fork")
    /\ \E s, t \in SliceIds :
          /\ Allocated(s) /\ Allocated(t)
          /\ slices[s].vector # slices[t].vector
          /\ slices[s].start = slices[t].start
          /\ slices[s].len = 2 /\ slices[t].len = 1
          /\ _slice_item_at(vectors, slices[s], 0) = Undef
          /\ _slice_item_at(vectors, slices[t], 0) # Undef
          /\ _slice_item_at(vectors, slices[s], 1) # Undef

\* The items of a slice once the one at index is taken out.
WithoutItemAt(items, index) ==
    [k \in 1..(Len(items) - 1) |->
        IF k <= index THEN items[k] ELSE items[k + 1]]

\* The cells of vector v that lie outside the range [start, start + len) of
\* slice sl.
OutsideRange(vs, sl) ==
    [i \in {j \in 1..vs[sl.vector].number :
                j <= sl.start \/ j > sl.start + sl.len} |->
        vs[sl.vector].data[i]]

\* C31: slice_remove_item_at( i ) with i < len returns 0 and makes the slice
\* one item shorter: the items before i are as they were and each item that
\* was at k > i is at k - 1, nothing outside the former range of the slice
\* is written, and this holds for i = len - 1 and for a full slice too.
C31_RemoveShiftsByOne ==
    [][last'.op = "slice_remove_item_at" =>
          \A s \in SliceIds, i \in 0..MaxEnd :
             /\ Allocated(s) /\ i < slices[s].len
             /\ slice_remove_item_at(s, i)
             => /\ last'.ret = "0"
                /\ slices'[s].len = slices[s].len - 1
                /\ Window(vectors', slices'[s])
                      = WithoutItemAt(Window(vectors, slices[s]), i)
                /\ OutsideRange(vectors', slices[s])
                      = OutsideRange(vectors, slices[s])]_vars

\* A remove has failed while every slice in use is full and holds one item:
\* index 0 was in range for the slice the call was made on.
C31_Witness ==
    /\ last = Call("slice_remove_item_at", "-1", "none")
    /\ \E s \in SliceIds : Allocated(s)
    /\ \A s \in SliceIds :
          Allocated(s) => Full(s) /\ slices[s].len = 1

\* What a call that replaces the item at i by d has to leave.
Replaced(i, d) ==
    LET before == Window(vectors, HeapSlice)
        after == Window(vectors', slices'[heap.slice])
    IN  IF i >= Len(before)
        THEN /\ last'.ret = "false"
             /\ UNCHANGED <<slices, vectors, heap, ub>>
        ELSE /\ last'.ret = "true"
             /\ ~ub' /\ heap' = heap /\ slices' = slices
             /\ IsHeap(vectors', slices'[heap.slice])
             /\ SameItems(after, [before EXCEPT ![i + 1] = d])

\* C32: on a valid heap heap_replace_at( i, v ) and heap_update_at( i, v,
\* up ), the latter with up agreeing with the change of the item, return
\* true for i < len and leave a valid heap of the same length whose items
\* are the items before with the one at i replaced by v; for i >= len both
\* return false and change nothing.
C32_ReplaceRestoresHeap ==
    ValidHeap =>
       \A i \in 0..MaxHeapLen, d \in HeapInputs :
          /\ ~ENABLED (heap_replace_at(i, d) /\ ~Replaced(i, d))
          /\ \A inc \in BOOLEAN :
                (i < _slice_len(HeapSlice) => Agrees(i, d, inc))
                   => ~ENABLED (heap_update_at(i, d, inc) /\ ~Replaced(i, d))

\* heap_replace_at has left a valid heap of four items whose root is the
\* only item above the three others: a leaf given the greatest value has
\* gone up to the root.
C32_Witness ==
    /\ last = Call("heap_replace_at", "true", "none")
    /\ ValidHeap
    /\ _slice_len(HeapSlice) = MaxHeapLen
    /\ \A i \in 1..(MaxHeapLen - 1) :
          _pointer_slice_item_at(vectors, HeapSlice, i)
             < _pointer_slice_item_at(vectors, HeapSlice, 0)

\* The table of map m has to be resized before an entry is added.
ResizeDue(m) ==
    \/ 4 * (m.nb + 1) >= 3 * m.allocated
    \/ m.max_collision > m.threshold

HeapItem(vs, index) == _pointer_slice_item_at(vs, HeapSlice, index)

\* C34: every loop of heap.c ends.  An iteration of percolate_up that does
\* not end the loop swaps and takes from to its parent, and the loop ends at
\* the root or below a parent that dominates; an iteration of
\* percolate_down that does not end the loop swaps and takes from to a
\* child, and the loop ends at a leaf or at a node that dominates its
\* children; the loop of new_heap_from_slice takes i down by one and ends
\* once percolate_down has returned for i = 0; and a call that is running
\* returns.
C34_LoopsEnd ==
    /\ [][/\ pc.loop = "percolate_up"
             => IF pc'.loop = "percolate_up"
                THEN /\ pc'.from = (pc.from - 1) \div 2
                     /\ vectors' # vectors
                ELSE \/ pc'.from = 0
                     \/ cmp(HeapItem(vectors', (pc'.from - 1) \div 2),
                            HeapItem(vectors', pc'.from)) >= 0
          /\ pc.loop = "percolate_down"
             => IF pc'.loop = "percolate_down"
                THEN /\ pc'.from \in {2 * pc.from + 1, 2 * pc.from + 2}
                     /\ pc'.from < _slice_len(HeapSlice)
                     /\ vectors' # vectors
                ELSE \A child \in {2 * pc'.from + 1, 2 * pc'.from + 2} :
                        child < _slice_len(HeapSlice)
                           => cmp(HeapItem(vectors', pc'.from),
                                  HeapItem(vectors', child)) >= 0
          /\ pc.op = "new_heap_from_slice"
             => /\ pc'.i \in {pc.i, pc.i - 1}
                /\ (pc'.op = "none" => pc.i = 0 /\ pc.loop = "none")]_vars
    /\ Running ~> ~Running

\* new_heap_from_slice has returned after the percolate_down of the root
\* moved the root of an array of MaxHeapLen items down to a leaf.
C34_Witness ==
    /\ ~Running /\ heap.live
    /\ last = Call("new_heap_from_slice", "ptr", "none")
    /\ _slice_len(HeapSlice) = MaxHeapLen
    /\ pc.i = 0
    /\ 2 * pc.from + 1 >= MaxHeapLen
    /\ pc.from > 0

\* n is a power of two.
IsPowerOf2(n) == \E k \in 0..20 : n = 2 ^ k

\* C35: an append that grows the vector of a full slice of capacity c gives
\* the slice a vector of more than c items and of 8 at least: the smallest
\* power of two that is at least 8 and c + 1 when c + 1 < 4096, the
\* smallest 8 + k * 4096 that is at least c + 1 otherwise; the position
\* start + len of the slice is inside it and the item is appended.
C35_GrowsPastCapacity ==
    [][last'.op = "slice_append_item" /\ last'.grow \in {"realloc", "fork"}
       => \A s \in SliceIds :
             slices'[s] # slices[s]
                => LET c == vectors[slices[s].vector].number
                       n == vectors'[slices'[s].vector].number
                   IN  /\ last'.ret = "0"
                       /\ n > c /\ n >= 8
                       /\ IF c + 1 < 4096
                          THEN /\ IsPowerOf2(n)
                               /\ n >= c + 1
                               /\ n = 8 \/ n \div 2 < c + 1
                          ELSE /\ (n - 8) % 4096 = 0
                               /\ n >= c + 1
                               /\ n - 4096 < c + 1
                       /\ slices[s].start + slices[s].len < n
                       /\ slices'[s].len = slices[s].len + 1]_vars

\* A full slice of 8 + 2 * 4096 items has grown by one linear increment:
\* its vector holds 8 + 3 * 4096 items.
C35_Witness ==
    /\ last = Call("slice_append_item", "0", "realloc")
    /\ \E s \in SliceIds :
          /\ Allocated(s)
          /\ slices[s].len = 8 + 2 * 4096 + 1
          /\ vectors[slices[s].vector].number = 8 + 3 * 4096

\* C36: the calls on a valid heap only add, remove or permute the items
\* stored.  After a heap_insert( v ) that returns true the heap holds the
\* items it held and v; new_heap_from_data and new_heap_from_slice make a
\* heap of the items of the array or of the slice they are given;
\* heap_extract leaves the items it found less the one it returns.  The
\* items extracted and the items stored are therefore the items inserted.
C36_ItemsConserved ==
    [][/\ last'.op = "heap_insert" /\ last'.ret = "true" /\ ValidHeap
          => \A d \in HeapInputs, f \in AllocArgs :
                heap_insert(d, f)
                   => /\ Len(Window(vectors', slices'[heap.slice]))
                            = Len(Window(vectors, HeapSlice)) + 1
                      /\ SameItems(Window(vectors', slices'[heap.slice]),
                                   Append(Window(vectors, HeapSlice), d))
       /\ last'.op = "new_heap_from_data" /\ last'.ret = "ptr"
          => \A d \in HeapData(HeapInputs, MaxHeapLen - 1) :
                new_heap_from_data(d, "none")
                   => /\ Len(Window(vectors', slices'[heap'.slice])) = Len(d)
                      /\ SameItems(Window(vectors', slices'[heap'.slice]), d)
       /\ last'.op = "new_heap_from_slice" /\ last'.ret = "ptr"
          => /\ slices' = slices
             /\ Len(Window(vectors', slices'[heap'.slice]))
                   = Len(Window(vectors, slices[heap'.slice]))
             /\ SameItems(Window(vectors', slices'[heap'.slice]),
                          Window(vectors, slices[heap'.slice]))
       /\ last'.op = "heap_extract" /\ last'.ret = "ptr" /\ ValidHeap
          => /\ Len(Window(vectors', slices'[heap.slice]))
                   = Len(Window(vectors, HeapSlice)) - 1
             /\ SameItems(Append(Window(vectors', slices'[heap.slice]),
                                 returned'),
                          Window(vectors, HeapSlice))]_vars

\* heap_insert has moved a heap of one item to a new vector: the heap holds
\* two items and not the one it held, which the slice it shared its vector
\* with still holds.
C36_Witness ==
    /\ last = Call("heap_insert", "true", "fork")
    /\ heap.live
    /\ _slice_len(HeapSlice) = 2
    /\ \E t \in SliceIds, v \in HeapInputs :
          /\ t # heap.slice /\ Allocated(t)
          /\ Count(Window(vectors, slices[t]), v) = 1
          /\ Count(Window(vectors, HeapSlice), v) = 0

\* What an append of d in place to slice s has to leave.
AppendedInPlace(s, d) ==
    /\ last' = Call("slice_append_item", "0", "none")
    /\ slices' = [slices EXCEPT ![s].len = @ + 1]
    /\ vectors' = [vectors EXCEPT
          ![slices[s].vector].data[slices[s].start + slices[s].len + 1] = d]
    /\ \A t \in SliceIds :
          /\ t # s /\ Allocated(t)
          /\ slices[t].vector = slices[s].vector
          /\ slices[t].start <= slices[s].start + slices[s].len
          /\ slices[s].start + slices[s].len < slices[t].start + slices[t].len
          => _slice_item_at(vectors', slices'[t],
                            slices[s].start + slices[s].len - slices[t].start)
                = d

\* C37: slice_append_item( v ) on a slice whose length is below its
\* capacity returns 0 without growing or forking the vector: the slice is
\* one item longer on the same vector, v is written at position start + len
\* of that vector and nowhere else, and no other slice changes, so that a
\* slice sharing the vector whose range holds that position reads v there,
\* with the start and the length it had.
C37_AppendInPlace ==
    \A s \in SliceIds, d \in Values :
       Allocated(s) /\ ~Full(s)
          => ~ENABLED (slice_append_item(s, d, "none")
                          /\ ~AppendedInPlace(s, d))

\* An append to a slice of one item has overwritten item 1 of the slice of
\* two items it shares its vector with: both read the appended item there,
\* and item 0 is as it was.
C37_Witness ==
    /\ last = Call("slice_append_item", "0", "none")
    /\ \E s, t \in SliceIds :
          /\ s # t /\ Allocated(s) /\ Allocated(t)
          /\ slices[s].vector = slices[t].vector
          /\ slices[s].start = 0 /\ slices[t].start = 0
          /\ slices[s].len = 2 /\ slices[t].len = 2
          /\ _slice_item_at(vectors, slices[t], 1)
                # _slice_item_at(vectors, slices[t], 0)
          /\ _slice_item_at(vectors, slices[t], 0) # Undef

\* C38: same_f is only called with two keys that are not NULL: in a lookup,
\* an insert or a delete, get_entry hands it no key of an entry of the table
\* that was never used or was cleared.
C38_SameGetsKeys ==
    last.op = "get_entry" => \A i \in DOMAIN returned : returned[i] # 0

\* get_entry has handed same_f the NULL key of an entry of the table that a
\* delete cleared, and then the key of the entry behind it, which it was
\* looking for.
C38_Witness ==
    /\ last = Call("get_entry", "ptr", "none")
    /\ Len(returned) = 2
    /\ returned[1] = 0
    /\ inserted[returned[2]] # 0

\* ---- map.c: the sizes of the table at their full width -------------------
\* The table of a map may hold 2^31 entries and its n2power may be 2^32:
\* the sizes of map.c are held here as pairs <<hi, lo>> of value
\* hi * 2^16 + lo, with 0 <= lo < 2^16, so that an uint64_t up to 2^33 and
\* the truncation to uint32_t keep their widths.  Such a table is not held:
\* the map is its header, table is whether map->table is not NULL, and the
\* lengths of the chains are drawn.
Half == 2 ^ 16

Wide(n) == <<n \div Half, n % Half>>

WideLeq(a, b) == a[1] < b[1] \/ (a[1] = b[1] /\ a[2] <= b[2])

\* k * a as an uint64_t, for a small k.
WideTimes(k, a) == <<k * a[1] + ((k * a[2]) \div Half), (k * a[2]) % Half>>

\* The conversion of an uint64_t to uint32_t.
uint32_t(a) == <<a[1] % Half, a[2]>>

\* ((uint64_t)1) << e
uint64_shift(e) == IF e < 16 THEN <<0, 2 ^ e>> ELSE <<2 ^ (e - 16), 0>>

UINT32_MAX_wide == <<Half - 1, Half - 1>>

\* greatest_prime of get_prime, whole: the last two entries are 4294967291
\* and the sentinel 8589934592.
greatest_prime_wide ==
    [i \in 1..29 |->
        Wide(<<7, 13, 31, 61, 127, 251, 509, 1021, 2039, 4093, 8191, 16381,
               32749, 65521, 131071, 262139, 524287, 1048573, 2097143,
               4194301, 8388593, 16777213, 33554393, 67108859, 134217689,
               268435399, 536870909, 1073741789, 2147483647>>[i])]
       \o << <<65535, 65531>>, <<131072, 0>> >>

\* The for loop of get_prime: the index i it is left with.
RECURSIVE get_prime_wide_loop(_, _)
get_prime_wide_loop(new_size, i) ==
    IF i < Len(greatest_prime_wide)
          /\ ~WideLeq(new_size, greatest_prime_wide[i + 1])
    THEN get_prime_wide_loop(new_size, i + 1)
    ELSE i

\* get_prime( new_size, &n2power ) past its assertion; new_size is an
\* uint32_t.
get_prime_wide(new_size) ==
    LET i == get_prime_wide_loop(new_size, 1) - 1
    IN  [prime |-> uint32_t(greatest_prime_wide[i + 1]),
         n2power |-> uint64_shift(MIN_POWER + i)]

\* No call of get_prime.
NoSize == <<>>

\* new_map( hash, same, size, collisions ), no allocation failing; returned
\* is the size that get_prime was handed.
new_map_wide(size, collisions) ==
    /\ ~map.live
    /\ last.ret # "abort"
    /\ LET new_size == IF WideLeq(Wide(MIN_SIZE), size) THEN size
                       ELSE Wide(MIN_SIZE)
           p == get_prime_wide(new_size)
       IN  /\ map' = [live |-> TRUE,
                      table |-> size # Wide(0),
                      nb |-> 0,
                      allocated |-> IF size # Wide(0) THEN p.prime
                                    ELSE Wide(0),
                      n2power |-> IF size # Wide(0) THEN p.n2power
                                  ELSE Wide(0),
                      max_collision |-> 0,
                      threshold |-> IF collisions >= MIN_COLLISIONS
                                    THEN collisions
                                    ELSE MIN_COLLISIONS]
           /\ returned' = IF size # Wide(0) THEN new_size ELSE NoSize
    /\ last' = Call("new_map", "ptr", "none")
    /\ UNCHANGED <<inserted, alloc_failures, beside_map>>

\* The test of make_room: whether the table has to be doubled.
make_room_due(m) ==
    \/ WideLeq(uint32_t(WideTimes(3, m.allocated)),
               uint32_t(WideTimes(4, Wide(1 + m.nb))))
    \/ m.max_collision > m.threshold

\* make_room( map ), where rehash finds max_chained the longest chain of
\* the new table: the map afterwards, the value returned, the size that
\* get_prime was handed (NoSize without a call) and whether an allocation
\* failed.
make_room_wide(m, max_chained, fail) ==
    IF make_room_due(m)
    THEN IF WideLeq(UINT32_MAX_wide, m.n2power)
         THEN [map |-> m, ret |-> -1, size |-> NoSize, failed |-> FALSE]
         ELSE LET new_size == uint32_t(IF m.n2power # Wide(0)
                                       THEN WideTimes(2, m.n2power)
                                       ELSE Wide(MIN_SIZE))
                  p == get_prime_wide(new_size)
              IN  IF fail = "table" \/ (fail = "entry" /\ max_chained > 1)
                  THEN [map |-> m, ret |-> -1, size |-> new_size,
                        failed |-> TRUE]
                  ELSE [map |-> [m EXCEPT
                                    !.table = TRUE,
                                    !.allocated = p.prime,
                                    !.n2power = p.n2power,
                                    !.max_collision =
                                        IF m.table
                                        THEN uint32(max_chained - 1)
                                        ELSE 0,
                                    !.nb = IF m.table THEN @ ELSE 0],
                        ret |-> 1, size |-> new_size, failed |-> FALSE]
    ELSE [map |-> m, ret |-> 0, size |-> NoSize, failed |-> FALSE]

\* The body of map_insert_entry for a key that is not NULL: found is
\* whether get_entry finds it, count what add_entry returns when it has its
\* memory.
_map_insert_entry_wide(m, found, max_chained, count, fail) ==
    IF found
    THEN [map |-> m, ret |-> FALSE, size |-> NoSize, failed |-> FALSE]
    ELSE LET r == make_room_wide(m, max_chained, fail)
         IN  IF r.ret = -1
             THEN [map |-> r.map, ret |-> FALSE, size |-> r.size,
                   failed |-> r.failed]
             ELSE IF fail = "entry" /\ count > 1
                  THEN [map |-> r.map, ret |-> FALSE, size |-> r.size,
                        failed |-> TRUE]
                  ELSE [map |-> [r.map EXCEPT
                                    !.max_collision =
                                        IF @ < count - 1 THEN count - 1
                                        ELSE @,
                                    !.nb = @ + 1],
                        ret |-> TRUE, size |-> r.size, failed |-> FALSE]

\* The chains a table of nb entries may have: the length of its longest.
ChainLengths(nb) == IF nb = 0 THEN {0} ELSE 1..nb

\* map_insert_entry( map, key, data ).  Where get_prime is handed a size
\* below MIN_SIZE its assertion stops the program, unless the build has
\* NDEBUG.
map_insert_entry_wide(found, max_chained, count, fail, ndebug) ==
    /\ map.live
    /\ last.ret # "abort"
    /\ map.nb < MaxWideNb
    /\ MayFail(fail)
    /\ found => map.nb > 0
    /\ max_chained \in ChainLengths(map.nb)
    /\ \E r \in {_map_insert_entry_wide(map, found, max_chained, count,
                                        fail)} :
          /\ fail # "none" => r.failed
          /\ count <= IF found \/ (~r.ret /\ ~r.failed) THEN 1
                      ELSE IF r.ret THEN r.map.nb
                      ELSE r.map.nb + 1
          /\ count <= make_room_wide(map, max_chained, fail)
                         .map.max_collision + 2
          /\ IF r.size # NoSize /\ ~WideLeq(Wide(MIN_SIZE), r.size)
                /\ ~ndebug
             THEN /\ fail = "none"
                  /\ map' = map
                  /\ last' = Call("map_insert_entry", "abort", "none")
             ELSE /\ map' = r.map
                  /\ last' = Call("map_insert_entry",
                                  IF r.ret THEN "true" ELSE "false", "none")
          /\ returned' = r.size
    /\ alloc_failures' = Failures(fail)
    /\ UNCHANGED <<inserted, beside_map>>

\* map_free( map )
map_free_wide ==
    /\ map.live
    /\ last.ret # "abort"
    /\ map' = NoMap
    /\ last' = Call("map_free", "void", "none")
    /\ returned' = NoSize
    /\ UNCHANGED <<inserted, alloc_failures, beside_map>>

\* The sizes a map is made with: none, below and at MIN_SIZE, around the
\* primes below 2^31 and 2^32, and the greatest uint32_t.
WideSizes ==
    {Wide(0), Wide(1), Wide(MIN_SIZE), Wide(2147483647), <<32768, 0>>,
     <<65535, 65531>>, <<65535, 65532>>, UINT32_MAX_wide}

NextWide ==
    \/ \E size \in WideSizes, c \in {0, MIN_COLLISIONS + 1} :
          new_map_wide(size, c)
    \/ \E found, ndebug \in BOOLEAN, max_chained \in 0..MaxWideNb,
          count \in 1..(MaxWideNb + 1), f \in {"none", "table", "entry"} :
          map_insert_entry_wide(found, max_chained, count, f, ndebug)
    \/ map_free_wide

SpecWide == Init /\ [][NextWide]_vars


\* C39: make_room never hands get_prime a size below MIN_SIZE, so that the
\* assertion of get_prime holds; and where the table cannot be doubled
\* within 32 bits (n2power is 2^31, whose double is 0 as an uint32_t), an
\* insert that has to double it returns false and leaves the map as it was.
C39_DoublingStopsAt32Bits ==
    /\ [](last.op \in {"new_map", "map_insert_entry"} /\ returned # NoSize
             => WideLeq(Wide(MIN_SIZE), returned))
    /\ [][map.live /\ map.n2power = uint64_shift(31) /\ make_room_due(map)
             /\ last'.op = "map_insert_entry"
          => last'.ret = "false" /\ map' = map]_vars

\* An insert into a map whose n2power is 2^31 and whose table had to be
\* doubled: get_prime was handed the size 0 and its assertion stopped the
\* program.
C39_Witness ==
    /\ last = Call("map_insert_entry", "abort", "none")
    /\ returned = Wide(0)
    /\ map.n2power = uint64_shift(31)
    /\ make_room_due(map)

====
